---------------------------- MODULE Spec2Model ----------------------------
(***************************************************************************)
(* Furniture placement engine (furniture_placer.py, furniture_definitions  *)
(* .py): the furniture pool, the wall-fit search and the per-room-type     *)
(* strategies, as a state machine.                                         *)
(*                                                                         *)
(* Lengths.  Room vertices and committed positions are whole pixels.       *)
(* Item sizes are metres divided by the scale, fractions of a pixel: they  *)
(* are kept in units of 1/SizeDen pixel.  Candidate positions and polygon  *)
(* vertices are kept in sub-pixel units, Den units per pixel, so that the  *)
(* wall fractions 0.5, 0.25, 0.75, 0.1, 0.9 and half sizes are exact       *)
(* integers.                                                               *)
(***************************************************************************)
EXTENDS Integers, Sequences, FiniteSets, TLC

\* ------------------------------------------------------------------ bounds
\* rooms of a floor plan; catalog entries of one category
MaxRooms == 3
MaxStock == 2

\* --------------------------------------------------------------- constants
\* sub-pixel units per pixel; the wall fractions of line 820 are TFractions[i]/Den
Den == 40
TFractions == <<20, 10, 30, 4, 36>>
\* item sizes (width_px, height_px) are in units of 1/SizeDen pixel
SizeDen == 10
\* half an item size, in sub-pixel units
Half(d) == d * (Den \div (2 * SizeDen))
\* the 5px gap of bedside tables and stoves
Gap == 5
\* the stove's closer positions, the sofa's clearance from the television
\* and the dining table's offset from the room centre, in pixels
StoveCloser == 10
SofaBuffer == 100
DiningOffset == 80

NoPos == <<>>

\* ---------------------------------------------------------------- vectors
Abs(x) == IF x < 0 THEN -x ELSE x
VAdd(a, b) == <<a[1] + b[1], a[2] + b[2]>>
VSub(a, b) == <<a[1] - b[1], a[2] - b[2]>>
VScale(a, k) == <<a[1] * k, a[2] * k>>
Dot(a, b) == a[1] * b[1] + a[2] * b[2]
Norm2(v) == Dot(v, v)

\* floor of the square root of n, by bisection of lo..hi
RECURSIVE ISqrtIn(_, _, _)
ISqrtIn(n, lo, hi) ==
    IF lo >= hi THEN lo
    ELSE LET mid == (lo + hi + 1) \div 2
         IN  IF mid * mid <= n THEN ISqrtIn(n, mid, hi) ELSE ISqrtIn(n, lo, mid - 1)
\* np.linalg.norm of a vector: exact for the axis-parallel vectors of the
\* rooms considered, rounded down to a whole unit otherwise
VNorm(v) ==
    IF v[2] = 0 THEN Abs(v[1])
    ELSE IF v[1] = 0 THEN Abs(v[2])
    ELSE ISqrtIn(Norm2(v), 0, Abs(v[1]) + Abs(v[2]))

\* int(x) of a coordinate given in sub-pixel units: truncation toward zero
TruncPx(x) == IF x >= 0 THEN x \div Den ELSE -((-x) \div Den)
IntPos(p) == <<TruncPx(p[1]), TruncPx(p[2])>>
ToSub(p) == <<p[1] * Den, p[2] * Den>>

\* --------------------------------------------------------------- polygons
\* A polygon is the sequence of its vertices.
NextIdx(P, i) == (i % Len(P)) + 1
Perp(v) == <<-v[2], v[1]>>

\* an axis n separates P from Q when their projections are strictly apart
SeparatedOn(n, P, Q) ==
    LET p == [i \in 1..Len(P) |-> Dot(n, P[i])]
        q == [j \in 1..Len(Q) |-> Dot(n, Q[j])]
    IN  \/ \A i \in 1..Len(P), j \in 1..Len(Q) : p[i] < q[j]
        \/ \A i \in 1..Len(P), j \in 1..Len(Q) : p[i] > q[j]

\* the edge normals of a footprint: a rectangle has two edge directions
FootprintAxes(P) == <<Perp(VSub(P[2], P[1])), Perp(VSub(P[3], P[2]))>>

\* shapely's intersects of two footprint rectangles: they share at least
\* one point, a touching edge or corner included (no edge normal of either
\* separates them)
IntersectsNever(P, Q) == FALSE
\* a footprint whose first edge is horizontal or vertical
AxisParallel(P) == P[1][1] = P[2][1] \/ P[1][2] = P[2][2]
\* the closed intervals between a and b and between c and d share a point
\* (P[1] and P[3] are opposite corners of a footprint)
Meet(a, b, c, d) ==
    (IF a <= b THEN a ELSE b) <= (IF c >= d THEN c ELSE d)
    /\ (IF c <= d THEN c ELSE d) <= (IF a >= b THEN a ELSE b)
IntersectsBySeparation(P, Q) ==
    LET axes == FootprintAxes(P) \o FootprintAxes(Q)
    IN  ~ \E a \in 1..Len(axes) : axes[a] # <<0, 0>> /\ SeparatedOn(axes[a], P, Q)
Intersects(P, Q) ==
    IF AxisParallel(P) /\ AxisParallel(Q)
    THEN /\ Meet(P[1][1], P[3][1], Q[1][1], Q[3][1])
         /\ Meet(P[1][2], P[3][2], Q[1][2], Q[3][2])
    ELSE IntersectsBySeparation(P, Q)

\* the footprints overlap in area (touching does not count)
SeparatedOrTouchingOn(n, P, Q) ==
    LET p == [i \in 1..Len(P) |-> Dot(n, P[i])]
        q == [j \in 1..Len(Q) |-> Dot(n, Q[j])]
    IN  \/ \A i \in 1..Len(P), j \in 1..Len(Q) : p[i] <= q[j]
        \/ \A i \in 1..Len(P), j \in 1..Len(Q) : p[i] >= q[j]
OverlapsInArea(P, Q) ==
    LET axes == FootprintAxes(P) \o FootprintAxes(Q)
    IN  ~ \E a \in 1..Len(axes) : axes[a] # <<0, 0>> /\ SeparatedOrTouchingOn(axes[a], P, Q)

Cross(a, b) == a[1] * b[2] - a[2] * b[1]

\* p lies on the closed segment a-b
OnSegment(p, a, b) ==
    /\ Cross(VSub(b, a), VSub(p, a)) = 0
    /\ Dot(VSub(p, a), VSub(p, b)) <= 0

\* the edge a-b crosses the horizontal ray from p toward +x
RayCrosses(p, a, b) ==
    /\ (a[2] > p[2]) # (b[2] > p[2])
    /\ IF b[2] > a[2]
       THEN Cross(VSub(b, a), VSub(p, a)) > 0
       ELSE Cross(VSub(b, a), VSub(p, a)) < 0

\* shapely's Polygon.contains(Point): the point is in the interior of the
\* polygon (a point of the boundary is not contained).  R in pixels, p in
\* sub-pixel units.
ContainsAlways(R, p) == TRUE
PolyContains(R, p) ==
    LET S == [i \in 1..Len(R) |-> ToSub(R[i])]
    IN  /\ Len(R) >= 3
        /\ \A i \in 1..Len(S) : ~OnSegment(p, S[i], S[NextIdx(S, i)])
        /\ Cardinality({i \in 1..Len(S) : RayCrosses(p, S[i], S[NextIdx(S, i)])}) % 2 = 1

RECURSIVE SumSeq(_)
SumSeq(s) == IF s = <<>> THEN 0 ELSE Head(s) + SumSeq(Tail(s))

\* floor(a * Den / b) for b > 0 without forming a * Den
MulDivDen(a, b) == (a \div b) * Den + ((a % b) * Den) \div b

\* Polygon.centroid, in sub-pixel units: the area centroid, computed
\* relative to the first vertex (exact for rectangles).
PolyCentroid(R) ==
    LET Q == [i \in 1..Len(R) |-> VSub(R[i], R[1])]
        cr == [i \in 1..Len(Q) |-> Cross(Q[i], Q[NextIdx(Q, i)])]
        s2 == SumSeq(cr)
        nx == SumSeq([i \in 1..Len(Q) |-> (Q[i][1] + Q[NextIdx(Q, i)][1]) * cr[i]])
        ny == SumSeq([i \in 1..Len(Q) |-> (Q[i][2] + Q[NextIdx(Q, i)][2]) * cr[i]])
        sg == IF s2 < 0 THEN -1 ELSE 1
    IN  IF s2 = 0 THEN ToSub(R[1])
        ELSE VAdd(ToSub(R[1]),
                  <<MulDivDen(sg * nx, 3 * sg * s2), MulDivDen(sg * ny, 3 * sg * s2)>>)

\* centroid of a footprint rectangle: the mean of its four vertices
FootprintCentroid(P) ==
    <<(P[1][1] + P[2][1] + P[3][1] + P[4][1]) \div 4,
      (P[1][2] + P[2][2] + P[3][2] + P[4][2]) \div 4>>

\* cos and sin of an angle in degrees, times TrigDen: exact for the
\* multiples of 90 that the walls of axis-parallel rooms give, rounded to
\* four decimals for the odd multiples of 45 (lines 541, 707)
TrigDen == 10000
CosNum(a) ==
    CASE a % 360 = 0 -> TrigDen
      [] a % 360 = 45 -> 7071
      [] a % 360 = 90 -> 0
      [] a % 360 = 135 -> -7071
      [] a % 360 = 180 -> -TrigDen
      [] a % 360 = 225 -> -7071
      [] a % 360 = 270 -> 0
      [] a % 360 = 315 -> 7071
SinNum(a) == CosNum(a + 270)
\* shapely.affinity.rotate about the origin (positive = counter-clockwise
\* for y up)
RotateBy(v, c, s) == <<(v[1] * c - v[2] * s) \div TrigDen, (v[1] * s + v[2] * c) \div TrigDen>>
Rotate(v, a) == RotateBy(v, CosNum(a), SinNum(a))

\* _get_furniture_polygon: the w x h rectangle centred at the origin,
\* rotated by angle about its centre, then translated to center_pos
\* (center_pos and the result in sub-pixel units, w and h item sizes).
GetFurniturePolygon(w, h, center_pos, angle) ==
    LET hw == Half(w)
        hh == Half(h)
        c == CosNum(angle)
        s == SinNum(angle)
    IN  << VAdd(RotateBy(<<-hw, -hh>>, c, s), center_pos),
           VAdd(RotateBy(<<hw, -hh>>, c, s), center_pos),
           VAdd(RotateBy(<<hw, hh>>, c, s), center_pos),
           VAdd(RotateBy(<<-hw, hh>>, c, s), center_pos) >>

\* ------------------------------------------------------------------ walls
\* np.rad2deg(np.arctan2(vy, vx)) for an axis-parallel wall vector
WallAngle(v) ==
    CASE v[2] = 0 /\ v[1] >= 0 -> 0
      [] v[2] = 0 /\ v[1] < 0 -> 180
      [] v[1] = 0 /\ v[2] > 0 -> 90
      [] v[1] = 0 /\ v[2] < 0 -> -90
      [] OTHER -> 0

WallVec(wall) == VSub(wall[2], wall[1])
WallLen2(wall) == Norm2(WallVec(wall))

\* list.sort(key, reverse=True) on a sequence of [key, val] records:
\* stable, equal keys keep their order
RECURSIVE InsertDesc(_, _)
InsertDesc(s, x) ==
    IF s = <<>> THEN <<x>>
    ELSE IF Head(s).key >= x.key THEN <<Head(s)>> \o InsertDesc(Tail(s), x)
    ELSE <<x>> \o s
RECURSIVE SortDesc(_)
SortDesc(s) ==
    IF s = <<>> THEN <<>>
    ELSE InsertDesc(SortDesc(SubSeq(s, 1, Len(s) - 1)), s[Len(s)])
\* list.sort(key): stable ascending
RECURSIVE InsertAsc(_, _)
InsertAsc(s, x) ==
    IF s = <<>> THEN <<x>>
    ELSE IF Head(s).key <= x.key THEN <<Head(s)>> \o InsertAsc(Tail(s), x)
    ELSE <<x>> \o s
RECURSIVE SortAsc(_)
SortAsc(s) ==
    IF s = <<>> THEN <<>>
    ELSE InsertAsc(SortAsc(SubSeq(s, 1, Len(s) - 1)), s[Len(s)])
Vals(s) == [i \in 1..Len(s) |-> s[i].val]

\* a variant that leaves out the edge from the last vertex back to the first
UnsortedWallsOpen(bounding_box) ==
    [i \in 1..(Len(bounding_box) - 1) |-> <<bounding_box[i], bounding_box[i + 1]>>]
\* _get_walls: one wall per edge of the bounding box, longest first
UnsortedWalls(bounding_box) ==
    [i \in 1..Len(bounding_box) |-> <<bounding_box[i], bounding_box[NextIdx(bounding_box, i)]>>]
\* a variant that goes round the walls twice
GetWallsTwice(bounding_box) ==
    LET w == UnsortedWalls(bounding_box) \o UnsortedWalls(bounding_box)
    IN  Vals(SortDesc([i \in 1..Len(w) |-> [key |-> WallLen2(w[i]), val |-> w[i]]]))
GetWallsUnsorted(bounding_box) == UnsortedWalls(bounding_box)
GetWalls(bounding_box) ==
    LET w == UnsortedWalls(bounding_box)
    IN  Vals(SortDesc([i \in 1..Len(w) |-> [key |-> WallLen2(w[i]), val |-> w[i]]]))


\* ---------------------------------------------------------- wall-fit search
\* _get_wall_normal: the perpendicular (-vy, vx) of the wall, flipped when
\* it points away from the room polygon's centroid.  The unit normal is
\* vec / len (len = 0 only for a zero-length wall, whose normal is zero).
\* centroid is room_polygon.centroid.
GetWallNormalNoFlip(point, centroid, wall_vec) ==
    [vec |-> Perp(wall_vec), len |-> VNorm(Perp(wall_vec))]
GetWallNormal(point, centroid, wall_vec) ==
    LET normal == Perp(wall_vec)
        vec_to_centroid == VSub(centroid, point)
    IN  [vec |-> IF Dot(normal, vec_to_centroid) < 0 THEN VScale(normal, -1) ELSE normal,
         len |-> VNorm(normal)]

\* normal * d2 / 2 in sub-pixel units, d2 an item size
NormalTimesHalf(nrm, d2) ==
    IF nrm.len = 0 THEN <<0, 0>>
    ELSE <<(nrm.vec[1] * Half(d2)) \div nrm.len,
           (nrm.vec[2] * Half(d2)) \div nrm.len>>

\* the orientations _place_item_on_wall tries, in order (lines 805-810)
OrientationsBoth(f, fixed_orientation) ==
    << <<f.width_px, f.height_px>>, <<f.height_px, f.width_px>> >>
Orientations(f, fixed_orientation) ==
    IF fixed_orientation \/ f.width_px = f.height_px
    THEN << <<f.width_px, f.height_px>> >>
    ELSE << <<f.width_px, f.height_px>>, <<f.height_px, f.width_px>> >>

\* the candidate pose of orientation o at wall fraction TFractions[k]/Den
\* (lines 821-827): its centre pos_adjusted and its footprint
CandidateCentre(o, k, wall, centroid) ==
    LET wall_vec == WallVec(wall)
        pos == VAdd(ToSub(wall[1]), VScale(wall_vec, TFractions[k]))
        normal == GetWallNormal(pos, centroid, wall_vec)
    IN  VAdd(pos, NormalTimesHalf(normal, o[2]))
CandidatePoly(o, k, wall, centroid) ==
    GetFurniturePolygon(o[1], o[2], CandidateCentre(o, k, wall, centroid),
                        WallAngle(WallVec(wall)))

\* lines 829-832: no collision with a placed footprint, centroid inside
NoCollisionWithFirst(f_poly, placed_polygons) ==
    placed_polygons = <<>> \/ ~Intersects(f_poly, placed_polygons[1])
NoCollision(f_poly, placed_polygons) ==
    \A i \in 1..Len(placed_polygons) : ~Intersects(f_poly, placed_polygons[i])
PoseAccepted(f_poly, room_polygon, placed_polygons) ==
    /\ NoCollision(f_poly, placed_polygons)
    /\ PolyContains(room_polygon, FootprintCentroid(f_poly))

\* line 813: the orientation is skipped when f_w > wall_len
TooWide(o, wall) == o[1] * o[1] > WallLen2(wall) * SizeDen * SizeDen

\* a variant that takes the last accepted candidate from index n on
FirstAcceptedLatest(n, orients, wall, room_polygon, centroid, placed_polygons) ==
    LET acc == {m \in n..(5 * Len(orients)) :
                   /\ ~TooWide(orients[((m - 1) \div 5) + 1], wall)
                   /\ PoseAccepted(CandidatePoly(orients[((m - 1) \div 5) + 1],
                                                 ((m - 1) % 5) + 1, wall, centroid),
                                   room_polygon, placed_polygons)}
    IN  IF acc = {} THEN 0 ELSE CHOOSE m \in acc : \A x \in acc : x <= m
\* the first accepted candidate from index n on, candidates numbered
\* orientation-major: n = 5 * (orientation - 1) + fraction; 0 when none
RECURSIVE FirstAccepted(_, _, _, _, _, _)
FirstAccepted(n, orients, wall, room_polygon, centroid, placed_polygons) ==
    IF n > 5 * Len(orients) THEN 0
    ELSE LET o == orients[((n - 1) \div 5) + 1]
             j == ((n - 1) % 5) + 1
         IN  IF /\ ~TooWide(o, wall)
                /\ PoseAccepted(CandidatePoly(o, j, wall, centroid),
                                room_polygon, placed_polygons)
             THEN n
             ELSE FirstAccepted(n + 1, orients, wall, room_polygon, centroid, placed_polygons)

NotPlacedPositioned(f) == [ok |-> FALSE, poly |-> <<>>, f |-> [f EXCEPT !.position_px = <<0, 0>>]]
NotPlaced(f) == [ok |-> FALSE, poly |-> <<>>, f |-> f]

\* the committed position of a pose whose centre is pos (lines 833, 865)
CommitPosExact(pos) == pos
CommitPos(pos) == IntPos(pos)

\* _place_item_on_wall lines 833-838: the accepted candidate (orientation
\* o, fraction j) is committed to the item (position truncated to whole
\* pixels, angle, width, height) and its footprint returned
CommitCandidate(f, o, j, wall, centroid) ==
    [ok |-> TRUE,
     poly |-> CandidatePoly(o, j, wall, centroid),
     f |-> [f EXCEPT !.position_px = CommitPos(CandidateCentre(o, j, wall, centroid)),
                     !.angle = WallAngle(WallVec(wall)),
                     !.width_px = o[1],
                     !.height_px = o[2]]]
\* the outcome of the search that accepted candidate n (none when n = 0)
SearchResult(f, n, orients, wall, centroid) ==
    IF n = 0 THEN NotPlaced(f)
    ELSE CommitCandidate(f, orients[((n - 1) \div 5) + 1], ((n - 1) % 5) + 1, wall, centroid)
\* _place_item_on_wall
PlaceItemOnWallFrom(f, wall, room_polygon, centroid, placed_polygons, orients) ==
    SearchResult(f, FirstAccepted(1, orients, wall, room_polygon, centroid, placed_polygons),
                 orients, wall, centroid)
PlaceItemOnWall(f, wall, room_polygon, placed_polygons, fixed_orientation) ==
    PlaceItemOnWallFrom(f, wall, room_polygon, PolyCentroid(room_polygon), placed_polygons,
                        Orientations(f, fixed_orientation))

\* the first of two placement results that succeeded
OrElse(r, other) == IF r.ok THEN r ELSE other

\* the walls of a list tried in order, first success returned
RECURSIVE PlaceOnWalls(_, _, _, _, _)
PlaceOnWalls(f, walls, room_polygon, placed_polygons, fixed_orientation) ==
    IF walls = <<>> THEN NotPlaced(f)
    ELSE OrElse(PlaceItemOnWall(f, Head(walls), room_polygon, placed_polygons, fixed_orientation),
                PlaceOnWalls(f, Tail(walls), room_polygon, placed_polygons, fixed_orientation))

\* _place_against_wall: every wall of the bounding box, longest first
PlaceAgainstWall(f, bounding_box, room_polygon, placed_polygons) ==
    PlaceOnWalls(f, GetWalls(bounding_box), room_polygon, placed_polygons, FALSE)

\* _place_item_at_pos: the single pose (pos, angle) with the item's current
\* width and height; pos in sub-pixel units
PlaceItemAtPos(f, pos, angle, room_polygon, placed_polygons) ==
    LET f_poly == GetFurniturePolygon(f.width_px, f.height_px, pos, angle)
    IN  IF PoseAccepted(f_poly, room_polygon, placed_polygons)
        THEN [ok |-> TRUE, poly |-> f_poly,
              f |-> [f EXCEPT !.position_px = CommitPos(pos), !.angle = angle]]
        ELSE NotPlaced(f)

\* ------------------------------------------------------------ the catalog
RoomTypes == {"living_room", "bedroom_master", "bedroom_guest", "bedroom",
              "bathroom", "hallway", "empty_room"}

\* ESSENTIAL_FURNITURE (furniture_definitions.py lines 40-46)
ESSENTIAL_FURNITURE ==
    [t \in {"bedroom_master", "bedroom_guest", "bedroom", "bathroom", "living_room"} |->
        CASE t = "bedroom_master" -> <<"bed", "study">>
          [] t = "bedroom_guest" -> <<"singlebed", "study">>
          [] t = "bedroom" -> <<"singlebed", "study">>
          [] t = "bathroom" -> <<"bathtub", "sink">>
          [] t = "living_room" -> <<"sofa", "tv">>]

\* FURNITURE_ROOM_MAP (furniture_definitions.py lines 50-58)
FURNITURE_ROOM_MAP ==
    [t \in RoomTypes |->
        CASE t = "living_room" ->
                <<"Lsofa", "sofa", "tv", "table", "diningtable", "kitchen", "stove", "sink">>
          [] t = "bedroom_master" -> <<"bed", "bedside", "study", "table">>
          [] t = "bedroom_guest" -> <<"singlebed", "bedside", "study", "table">>
          [] t = "bedroom" -> <<"singlebed", "bedside", "study", "table">>
          [] t = "bathroom" -> <<"bathtub", "shower", "sink", "commode">>
          [] t = "hallway" -> <<>>
          [] t = "empty_room" -> <<>>]

\* the category names, in the order the measurement table lists them
CategoryOrder ==
    <<"Lsofa", "sofa", "tv", "table", "diningtable", "kitchen", "stove", "sink",
      "bed", "singlebed", "bedside", "study", "bathtub", "shower", "commode">>
Categories == {CategoryOrder[i] : i \in 1..Len(CategoryOrder)}

\* Furniture.__init__ (lines 7-17), the size already converted to pixels
\* (FurniturePlacer.__init__, lines 21-24), in units of 1/SizeDen pixel
Furniture(name, width_px, height_px) ==
    [name |-> name, width_px |-> width_px, height_px |-> height_px,
     position_px |-> NoPos, angle |-> 0, essential |-> FALSE]

\* --------------------------------------------------------- furniture pool
\* prototypes.get(c): the queue of category c, empty when the key is absent
Queue(pool, c) == IF c \in DOMAIN pool THEN pool[c] ELSE <<>>

RECURSIVE CountTypes(_, _)
\* room_type_count (lines 66-69): the room types in order of first
\* occurrence, each with its number of rooms
CountTypes(rooms, acc) ==
    IF rooms = <<>> THEN acc
    ELSE LET t == Head(rooms).type
             hit == {i \in 1..Len(acc) : acc[i].type = t}
         IN  IF hit = {}
             THEN CountTypes(Tail(rooms), Append(acc, [type |-> t, count |-> 1]))
             ELSE CountTypes(Tail(rooms),
                             [i \in 1..Len(acc) |->
                                 IF i \in hit THEN [acc[i] EXCEPT !.count = @ + 1] ELSE acc[i]])

\* lines 80-84: duplicates of the first instance, flagged essential, are
\* appended until the queue holds count instances.  st = [pool, items].
RECURSIVE TopUpUnflagged(_, _, _)
TopUpUnflagged(st, c, count) ==
    IF Len(st.pool[c]) >= count THEN st
    ELSE LET original == st.items[st.pool[c][1]]
             duplicate == original
             id == Len(st.items) + 1
         IN  TopUpUnflagged([pool |-> [st.pool EXCEPT ![c] = Append(@, id)],
                    items |-> Append(st.items, duplicate)], c, count)
RECURSIVE TopUp(_, _, _)
TopUp(st, c, count) ==
    IF Len(st.pool[c]) >= count THEN st
    ELSE LET original == st.items[st.pool[c][1]]
             duplicate == [original EXCEPT !.essential = TRUE]
             id == Len(st.items) + 1
         IN  TopUp([pool |-> [st.pool EXCEPT ![c] = Append(@, id)],
                    items |-> Append(st.items, duplicate)], c, count)

\* a variant that stocks an essential category that has no instance
RECURSIVE EnsureForTypeStocking(_, _, _)
EnsureForTypeStocking(st, essentials, count) ==
    IF essentials = <<>> THEN st
    ELSE LET c == Head(essentials)
             fresh == [pool |-> [x \in DOMAIN st.pool \cup {c} |->
                                    IF x = c THEN <<Len(st.items) + 1>> ELSE st.pool[x]],
                       items |-> Append(st.items, Furniture(c, 100, 100))]
         IN  EnsureForTypeStocking(IF c \in DOMAIN st.pool /\ st.pool[c] # <<>>
                                   THEN TopUp(st, c, count) ELSE TopUp(fresh, c, count),
                                   Tail(essentials), count)
\* lines 77-85 for one room type: each essential category that has stock
RECURSIVE EnsureForType(_, _, _)
EnsureForType(st, essentials, count) ==
    IF essentials = <<>> THEN st
    ELSE LET c == Head(essentials)
         IN  EnsureForType(IF c \in DOMAIN st.pool /\ st.pool[c] # <<>>
                           THEN TopUp(st, c, count) ELSE st,
                           Tail(essentials), count)

\* lines 75-85
RECURSIVE EnsureForTypes(_, _)
EnsureForTypes(st, counts) ==
    IF counts = <<>> THEN st
    ELSE EnsureForTypes(IF Head(counts).type \in DOMAIN ESSENTIAL_FURNITURE
                        THEN EnsureForType(st, ESSENTIAL_FURNITURE[Head(counts).type],
                                           Head(counts).count)
                        ELSE st,
                        Tail(counts))

\* ensure_essential_furniture
EnsureEssentialFurniture(rooms, pool, its) ==
    EnsureForTypes([pool |-> pool, items |-> its], CountTypes(rooms, <<>>))

\* list.remove(x): the sequence without the first occurrence of x
RemoveNone(s, x) == s
RECURSIVE RemoveFirst(_, _)
RemoveFirst(s, x) ==
    IF s = <<>> THEN <<>>
    ELSE IF Head(s) = x THEN Tail(s) ELSE <<Head(s)>> \o RemoveFirst(Tail(s), x)

\* one iteration of the loop of _get_furniture_for_room (lines 57-67):
\* the instance drawn for f_type (0 when none) and the pool left
DrawHead(pool, its, f_type) ==
    IF Queue(pool, f_type) # <<>>
    THEN [id |-> Head(pool[f_type]), pool |-> [pool EXCEPT ![f_type] = Tail(@)]]
    ELSE [id |-> 0, pool |-> pool]
DrawKeep(pool, its, f_type) ==
    IF Queue(pool, f_type) # <<>>
    THEN [id |-> Head(pool[f_type]), pool |-> pool]
    ELSE [id |-> 0, pool |-> pool]
DrawOne(pool, its, f_type) ==
    IF Queue(pool, f_type) # <<>>
    THEN LET essential_items == SelectSeq(pool[f_type], LAMBDA i : its[i].essential)
         IN  IF essential_items # <<>>
             THEN [id |-> essential_items[1],
                   pool |-> [pool EXCEPT ![f_type] = RemoveFirst(@, essential_items[1])]]
             ELSE [id |-> Head(pool[f_type]),
                   pool |-> [pool EXCEPT ![f_type] = Tail(@)]]
    ELSE [id |-> 0, pool |-> pool]

\* ------------------------------------------------------------------ rooms
\* the polygon the placement checks use: the contour when the room has one
\* of more than two points, else the bounding box (lines 104-107, 139-142,
\* 579-582); the living room always uses the bounding box (line 322)
ContourOrBox(room) ==
    IF room.contour # <<>> /\ Len(room.contour) > 2 THEN room.contour
    ELSE room.bounding_box
RoomPolygon(room) ==
    IF room.type = "living_room" THEN room.bounding_box ELSE ContourOrBox(room)

Area(f) == f.width_px * f.height_px

\* ------------------------------------------------------------------ state
VARIABLES
    rooms_info,          \* the rooms, in iteration order: [type, bounding_box, contour]
    furniture_map,       \* room type -> categories (FurniturePlacer.furniture_map)
    furniture_prototypes,\* the pool: category -> queue of instance ids
    items,               \* the Furniture instances, by id
    placed_furniture,    \* per finished room, the ids placed in it
    placement_stats,     \* room type -> [attempted, placed, failed]
    pc,                  \* where the run is
    cur,                 \* index of the room being processed
    k,                   \* index into the room type's category list while drawing
    all_furniture,       \* the ids drawn for the current room
    lists,               \* the strategy's item lists of the current room
    placed_in_this_room, \* ids placed in the current room
    placed_polygons,     \* their footprints, as checked
    stock,               \* history: the pool as place_all found it
    drawLog              \* history: every draw, [room, cat, id]

vars == <<rooms_info, furniture_map, furniture_prototypes, items, placed_furniture,
          placement_stats, pc, cur, k, all_furniture, lists, placed_in_this_room,
          placed_polygons, stock, drawLog>>

inputs == <<rooms_info, furniture_map>>
roomLocals == <<k, all_furniture, lists, placed_in_this_room, placed_polygons>>

Room == rooms_info[cur]
RoomType == rooms_info[cur].type
\* the locals of a strategy, each a list; a single item (bed, kitchen, tv)
\* is a list of one id
NoLists ==
    [todo |-> <<>>, bed_items |-> <<>>, study_items |-> <<>>, bedside_items |-> <<>>,
     other_furniture |-> <<>>, sides |-> <<>>, bed |-> <<>>,
     sink_items |-> <<>>, bathtub_items |-> <<>>, shower_items |-> <<>>,
     commode_items |-> <<>>,
     kitchen |-> <<>>, stove |-> <<>>, tv |-> <<>>, sofas |-> <<>>, tables |-> <<>>,
     dining_tables |-> <<>>, rest |-> <<>>]
ZeroStats == [attempted |-> 0, placed |-> 0, failed |-> 0]

\* ---------------------------------------------------------------- actions
\* main.py line 364: ensure_essential_furniture on the loaded prototypes
EnsureEssential ==
    /\ pc = "main"
    /\ LET st == EnsureEssentialFurniture(rooms_info, furniture_prototypes, items)
       IN  /\ furniture_prototypes' = st.pool
           /\ items' = st.items
           /\ stock' = st.pool
    /\ pc' = "place_all"
    /\ UNCHANGED <<inputs, placed_furniture, placement_stats, cur, roomLocals, drawLog>>

\* place_all lines 29-36: the statistics of every room type present
InitStats ==
    /\ pc = "place_all"
    /\ placement_stats' = [t \in {rooms_info[i].type : i \in 1..Len(rooms_info)} |-> ZeroStats]
    /\ pc' = "next_room"
    /\ UNCHANGED <<inputs, furniture_prototypes, items, placed_furniture, cur, roomLocals,
                   stock, drawLog>>

\* place_all line 39: the next room; its strategy starts with empty lists
NextRoom ==
    /\ pc = "next_room"
    /\ cur < Len(rooms_info)
    /\ cur' = cur + 1
    /\ k' = 1
    /\ all_furniture' = <<>>
    /\ lists' = NoLists
    /\ placed_in_this_room' = <<>>
    /\ placed_polygons' = <<>>
    /\ pc' = "draw"
    /\ UNCHANGED <<inputs, furniture_prototypes, items, placed_furniture, placement_stats,
                   stock, drawLog>>

\* place_all line 49: every room done
ReturnLayout ==
    /\ pc = "next_room"
    /\ cur = Len(rooms_info)
    /\ pc' = "done"
    /\ UNCHANGED <<inputs, furniture_prototypes, items, placed_furniture, placement_stats,
                   cur, roomLocals, stock, drawLog>>

FurnitureNeededTwice ==
    IF RoomType \in DOMAIN furniture_map THEN furniture_map[RoomType] \o furniture_map[RoomType]
    ELSE <<>>
FurnitureNeeded == IF RoomType \in DOMAIN furniture_map THEN furniture_map[RoomType] ELSE <<>>

\* _get_furniture_for_room, one category of furniture_needed
DrawStep ==
    /\ pc = "draw"
    /\ k <= Len(FurnitureNeeded)
    /\ LET f_type == FurnitureNeeded[k]
           d == DrawOne(furniture_prototypes, items, f_type)
       IN  /\ furniture_prototypes' = d.pool
           /\ all_furniture' = IF d.id = 0 THEN all_furniture ELSE Append(all_furniture, d.id)
           /\ drawLog' = IF d.id = 0 THEN drawLog
                         ELSE Append(drawLog, [room |-> cur, cat |-> f_type, id |-> d.id])
    /\ k' = k + 1
    /\ UNCHANGED <<inputs, items, placed_furniture, placement_stats, pc, cur, lists,
                   placed_in_this_room, placed_polygons, stock>>

Drawn == pc = "draw" /\ k > Len(FurnitureNeeded)

\* ids sorted by footprint area, largest first (stable)
SortByArea(ids) == Vals(SortDesc([i \in 1..Len(ids) |-> [key |-> Area(items[ids[i]]), val |-> ids[i]]]))

\* the statistics of the current room's type after one more attempt
CountAttempt(stats, t, ok) ==
    [stats EXCEPT ![t].attempted = @ + 1,
                  ![t].placed = IF ok THEN @ + 1 ELSE @,
                  ![t].failed = IF ok THEN @ ELSE @ + 1]

\* what every successful placement does to the room's lists and the item
Added(s, ok, x) == IF ok THEN Append(s, x) ELSE s
Commit(id, r) ==
    /\ items' = [items EXCEPT ![id] = r.f]
    /\ placed_in_this_room' = Added(placed_in_this_room, r.ok, id)
    /\ placed_polygons' = Added(placed_polygons, r.ok, r.poly)
\* the same for two items placed one after the other in one step
CommitPair(id1, r1, id2, r2) ==
    /\ items' = [items EXCEPT ![id1] = r1.f, ![id2] = r2.f]
    /\ placed_in_this_room' = Added(Added(placed_in_this_room, r1.ok, id1), r2.ok, id2)
    /\ placed_polygons' = Added(Added(placed_polygons, r1.ok, r1.poly), r2.ok, r2.poly)

\* a placement attempt that the strategy counts in the statistics
CommitCounted(id, r) ==
    /\ Commit(id, r)
    /\ placement_stats' = CountAttempt(placement_stats, RoomType, r.ok)

\* a variant that returns from the room without recording its placed list
EndRoomDropping ==
    /\ placed_furniture' = placed_furniture
    /\ pc' = "next_room"
\* the room's strategy returns: place_all line 40
EndRoom ==
    /\ placed_furniture' = Append(placed_furniture, placed_in_this_room)
    /\ pc' = "next_room"

\* ------------------------------------------------------- default strategy
\* _place_in_room lines 97-98: the drawn items, largest area first
DefaultSort ==
    /\ Drawn
    /\ RoomType \notin {"living_room", "bedroom_master", "bedroom_guest", "bedroom", "bathroom"}
    /\ lists' = [lists EXCEPT !.todo = SortByArea(all_furniture)]
    /\ pc' = "default"
    /\ UNCHANGED <<inputs, furniture_prototypes, items, placed_furniture, placement_stats,
                   cur, k, all_furniture, placed_in_this_room, placed_polygons, stock, drawLog>>

\* _place_in_room lines 109-117, one item
DefaultPlace ==
    /\ pc = "default"
    /\ lists.todo # <<>>
    /\ CommitCounted(Head(lists.todo),
                     PlaceAgainstWall(items[Head(lists.todo)], Room.bounding_box,
                                      RoomPolygon(Room), placed_polygons))
    /\ lists' = [lists EXCEPT !.todo = Tail(@)]
    /\ UNCHANGED <<inputs, furniture_prototypes, placed_furniture, pc, cur, k, all_furniture,
                   stock, drawLog>>

\* _place_in_room line 130
DefaultReturn ==
    /\ pc = "default"
    /\ lists.todo = <<>>
    /\ EndRoom
    /\ UNCHANGED <<inputs, furniture_prototypes, items, placement_stats, cur, roomLocals,
                   stock, drawLog>>

\* ------------------------------------------------------- bedroom strategy
\* Python's  sub in name  for the category names
NameContains(name, sub) ==
    CASE sub = "bed" -> name \in {"bed", "singlebed", "bedside"}
      [] sub = "table" -> name \in {"table", "diningtable"}
      [] OTHER -> name = sub

IsBedroom(t) == t \in {"bedroom_master", "bedroom_guest", "bedroom"}
Names(ids, P(_)) == SelectSeq(ids, LAMBDA i : P(items[i].name))

\* _place_in_bedroom lines 148-164: the drawn items by kind; bed is the
\* first of the bed items
IsBedNameExact(n) == n \in {"bed", "singlebed"}
IsBedName(n) == NameContains(n, "bed")
IsStudyName(n) == ~IsBedName(n) /\ NameContains(n, "study")
IsBedsideName(n) ==
    /\ ~IsBedName(n) /\ ~NameContains(n, "study")
    /\ (NameContains(n, "bedside") \/ NameContains(n, "table"))
IsBedroomOtherName(n) ==
    ~IsBedName(n) /\ ~NameContains(n, "study") /\ ~NameContains(n, "bedside")
    /\ ~NameContains(n, "table")

BedroomCategorize ==
    /\ Drawn
    /\ IsBedroom(RoomType)
    /\ LET bed_items == Names(all_furniture, IsBedName)
       IN  lists' = [lists EXCEPT
                !.bed_items = bed_items,
                !.study_items = Names(all_furniture, IsStudyName),
                !.bedside_items = Names(all_furniture, IsBedsideName),
                !.other_furniture = Names(all_furniture, IsBedroomOtherName),
                !.bed = IF bed_items # <<>> THEN <<bed_items[1]>> ELSE <<>>]
    /\ pc' = "bed"
    /\ UNCHANGED <<inputs, furniture_prototypes, items, placed_furniture, placement_stats,
                   cur, k, all_furniture, placed_in_this_room, placed_polygons, stock, drawLog>>

InSeq(x, s) == \E i \in 1..Len(s) : s[i] = x
FirstN(s, n) == SubSeq(s, 1, IF Len(s) < n THEN Len(s) ELSE n)

\* a variant that tries the walls shortest first
PlaceBedShortFirst(f, room, room_polygon, polys) ==
    PlaceOnWalls(f, Vals(SortAsc([i \in 1..Len(room.bounding_box) |->
                                    [key |-> WallLen2(UnsortedWalls(room.bounding_box)[i]),
                                     val |-> UnsortedWalls(room.bounding_box)[i]]])),
                 room_polygon, polys, FALSE)
\* lines 170-192: the two longest walls, then any wall
PlaceBed(f, room, room_polygon, polys) ==
    OrElse(PlaceOnWalls(f, FirstN(GetWalls(room.bounding_box), 2), room_polygon, polys, FALSE),
           PlaceAgainstWall(f, room.bounding_box, room_polygon, polys))

\* _place_in_bedroom lines 163-195
BedroomBed ==
    /\ pc = "bed"
    /\ IF lists.bed # <<>>
       THEN CommitCounted(lists.bed[1],
                          PlaceBed(items[lists.bed[1]], Room, RoomPolygon(Room), placed_polygons))
       ELSE UNCHANGED <<items, placed_in_this_room, placed_polygons, placement_stats>>
    /\ lists' = [lists EXCEPT !.sides = <<-1, 1>>]
    /\ pc' = "bedside"
    /\ UNCHANGED <<inputs, furniture_prototypes, placed_furniture, cur, k, all_furniture,
                   stock, drawLog>>

BedPlaced == lists.bed # <<>> /\ InSeq(lists.bed[1], placed_in_this_room)

\* lines 202-216: the pose beside the bed, in sub-pixel units
BedsidePos(bed, bedside, side_direction) ==
    VAdd(ToSub(bed.position_px),
         VScale(Rotate(<<Half(bed.width_px + bedside.width_px) + Gap * Den, 0>>,
                       bed.angle + 90),
                side_direction))

\* lines 219-235: beside the bed at the bed's angle, else against any wall
PlaceBedside(bed, bedside, side_direction, room, room_polygon, polys) ==
    OrElse(PlaceItemAtPos(bedside, BedsidePos(bed, bedside, side_direction), bed.angle,
                          room_polygon, polys),
           PlaceAgainstWall(bedside, room.bounding_box, room_polygon, polys))

\* lines 226-235: a bedside table that found no place goes back to the
\* end of bedside_items
BedsideStep(id, r) ==
    /\ CommitCounted(id, r)
    /\ lists' = [lists EXCEPT
             !.sides = Tail(@),
             !.bedside_items = IF r.ok THEN Tail(@) ELSE Append(Tail(@), id)]

\* lines 207-235, one side of the bed
BedroomBedside ==
    /\ pc = "bedside"
    /\ BedPlaced /\ lists.sides # <<>> /\ lists.bedside_items # <<>>
    /\ BedsideStep(Head(lists.bedside_items),
                   PlaceBedside(items[lists.bed[1]], items[Head(lists.bedside_items)],
                                Head(lists.sides), Room, RoomPolygon(Room), placed_polygons))
    /\ UNCHANGED <<inputs, furniture_prototypes, placed_furniture, pc, cur, k, all_furniture,
                   stock, drawLog>>

\* midpoint of a wall, doubled (pixels)
WallMid2(wall) == VAdd(wall[1], wall[2])
\* lines 249-252: the walls, farthest midpoint from pos first
ByDistanceFrom(w, pos) ==
    [i \in 1..Len(w) |-> [key |-> Norm2(VSub(WallMid2(w[i]), VScale(pos, 2))), val |-> w[i]]]
WallsFarthestFirst(bounding_box, pos) ==
    Vals(SortDesc(ByDistanceFrom(GetWalls(bounding_box), pos)))

\* lines 243-268: the two walls farthest from a placed bed, then any wall
PlaceStudy(f, bedPlaced, bed, room, room_polygon, polys) ==
    OrElse(IF bedPlaced
           THEN PlaceOnWalls(f, FirstN(WallsFarthestFirst(room.bounding_box, bed.position_px), 2),
                             room_polygon, polys, FALSE)
           ELSE NotPlaced(f),
           PlaceAgainstWall(f, room.bounding_box, room_polygon, polys))

\* _place_in_bedroom lines 237-276; the other study items are the loop of
\* lines 279-288
BedroomStudy ==
    /\ pc = "bedside"
    /\ ~(BedPlaced /\ lists.sides # <<>> /\ lists.bedside_items # <<>>)
    /\ IF lists.study_items # <<>>
       THEN /\ CommitCounted(Head(lists.study_items),
                             PlaceStudy(items[Head(lists.study_items)], BedPlaced,
                                        IF BedPlaced THEN items[lists.bed[1]]
                                        ELSE items[Head(lists.study_items)],
                                        Room, RoomPolygon(Room), placed_polygons))
            /\ lists' = [lists EXCEPT !.study_items = Tail(@), !.todo = Tail(lists.study_items)]
       ELSE UNCHANGED <<items, placed_in_this_room, placed_polygons, placement_stats, lists>>
    /\ pc' = "more_study"
    /\ UNCHANGED <<inputs, furniture_prototypes, placed_furniture, cur, k, all_furniture,
                   stock, drawLog>>

\* one iteration of a loop that places the head of todo against any wall
\* and counts it (lines 280-288, 295-302, 740-748, 752-759)
PlaceNextCounted ==
    /\ lists.todo # <<>>
    /\ CommitCounted(Head(lists.todo),
                     PlaceAgainstWall(items[Head(lists.todo)], Room.bounding_box,
                                      RoomPolygon(Room), placed_polygons))
    /\ lists' = [lists EXCEPT !.todo = Tail(@)]

\* lines 279-288, one additional study item
BedroomMoreStudy ==
    /\ pc = "more_study"
    /\ PlaceNextCounted
    /\ UNCHANGED <<inputs, furniture_prototypes, placed_furniture, pc, cur, k, all_furniture,
                   stock, drawLog>>

\* lines 291-292: what is left, largest area first
BedroomSortRemaining ==
    /\ pc = "more_study"
    /\ lists.todo = <<>>
    /\ lists' = [lists EXCEPT !.todo = SortByArea(lists.bedside_items \o lists.other_furniture)]
    /\ pc' = "bedroom_rest"
    /\ UNCHANGED <<inputs, furniture_prototypes, items, placed_furniture, placement_stats,
                   cur, k, all_furniture, placed_in_this_room, placed_polygons, stock, drawLog>>

\* lines 294-302, one remaining item
BedroomRemaining ==
    /\ pc = "bedroom_rest"
    /\ PlaceNextCounted
    /\ UNCHANGED <<inputs, furniture_prototypes, placed_furniture, pc, cur, k, all_furniture,
                   stock, drawLog>>

\* line 314
BedroomReturn ==
    /\ pc = "bedroom_rest"
    /\ lists.todo = <<>>
    /\ EndRoom
    /\ UNCHANGED <<inputs, furniture_prototypes, items, placement_stats, cur, roomLocals,
                   stock, drawLog>>

\* ------------------------------------------------------ bathroom strategy
IsSinkName(n) == NameContains(n, "sink")
IsBathtubName(n) == ~IsSinkName(n) /\ NameContains(n, "bathtub")
IsShowerName(n) == ~IsSinkName(n) /\ ~NameContains(n, "bathtub") /\ NameContains(n, "shower")
IsCommodeName(n) ==
    /\ ~IsSinkName(n) /\ ~NameContains(n, "bathtub") /\ ~NameContains(n, "shower")
    /\ NameContains(n, "commode")
IsBathroomOtherName(n) ==
    /\ ~IsSinkName(n) /\ ~NameContains(n, "bathtub") /\ ~NameContains(n, "shower")
    /\ ~NameContains(n, "commode")

\* _place_in_bathroom lines 588-604
BathroomCategorize ==
    /\ Drawn
    /\ RoomType = "bathroom"
    /\ lists' = [lists EXCEPT
            !.sink_items = Names(all_furniture, IsSinkName),
            !.bathtub_items = Names(all_furniture, IsBathtubName),
            !.shower_items = Names(all_furniture, IsShowerName),
            !.commode_items = Names(all_furniture, IsCommodeName),
            !.other_furniture = Names(all_furniture, IsBathroomOtherName)]
    /\ pc' = "bathroom"
    /\ UNCHANGED <<inputs, furniture_prototypes, items, placed_furniture, placement_stats,
                   cur, k, all_furniture, placed_in_this_room, placed_polygons, stock, drawLog>>

Max(a, b) == IF a >= b THEN a ELSE b
Min(a, b) == IF a <= b THEN a ELSE b
\* lines 612-616, 649-651, 362-364: the longer side becomes the width
LongSideAsHeight(f) ==
    [f EXCEPT !.width_px = Min(f.width_px, f.height_px), !.height_px = Max(f.width_px, f.height_px)]
LongSideAsWidth(f) ==
    [f EXCEPT !.width_px = Max(f.width_px, f.height_px), !.height_px = Min(f.width_px, f.height_px)]

\* a failed search leaves the item as the caller passed it
Keep(r, f) == IF r.ok THEN r ELSE NotPlaced(f)
\* a result that failed is followed by _place_against_wall on the item as
\* the failed attempts left it (lines 420-427, 548-554, 725-736)
OrOnAnyWall(r, room, room_polygon, polys) ==
    IF r.ok THEN r
    ELSE Keep(PlaceAgainstWall(r.f, room.bounding_box, room_polygon, polys), r.f)

\* lines 611-641: long side wall-parallel on any wall, else any wall
PlaceSinkAs(f, room, room_polygon, polys) ==
    OrElse(PlaceOnWalls(f, GetWalls(room.bounding_box), room_polygon, polys, TRUE),
           Keep(PlaceAgainstWall(f, room.bounding_box, room_polygon, polys), f))
PlaceSink(sink, room, room_polygon, polys) ==
    PlaceSinkAs(LongSideAsWidth(sink), room, room_polygon, polys)

\* one iteration of the loop of lines 607-641
BathroomSink ==
    /\ pc = "bathroom"
    /\ lists.sink_items # <<>>
    /\ CommitCounted(Head(lists.sink_items),
                     PlaceSink(items[Head(lists.sink_items)], Room, RoomPolygon(Room), placed_polygons))
    /\ lists' = [lists EXCEPT !.sink_items = Tail(@)]
    /\ UNCHANGED <<inputs, furniture_prototypes, placed_furniture, pc, cur, k, all_furniture,
                   stock, drawLog>>

\* lines 648-655
PlaceBathtub(bathtub, room, room_polygon, polys) ==
    LET f == LongSideAsWidth(bathtub)
    IN  Keep(PlaceAgainstWall(f, room.bounding_box, room_polygon, polys), f)

\* one iteration of the loop of lines 644-662
BathroomBathtub ==
    /\ pc = "bathroom"
    /\ lists.sink_items = <<>> /\ lists.bathtub_items # <<>>
    /\ CommitCounted(Head(lists.bathtub_items),
                     PlaceBathtub(items[Head(lists.bathtub_items)], Room, RoomPolygon(Room), placed_polygons))
    /\ lists' = [lists EXCEPT !.bathtub_items = Tail(@)]
    /\ UNCHANGED <<inputs, furniture_prototypes, placed_furniture, pc, cur, k, all_furniture,
                   stock, drawLog>>

\* lines 673-685: the ordered pairs of distinct walls that share an end
\* point, each with the shared point
SharesPoint(w1, w2) == w1[1] = w2[1] \/ w1[1] = w2[2] \/ w1[2] = w2[1] \/ w1[2] = w2[2]
CornerOf(w1, w2) == IF w1[1] = w2[1] \/ w1[1] = w2[2] THEN w1[1] ELSE w1[2]
Corners(walls) ==
    LET n == Len(walls)
        pairs == [q \in 1..(n * n) |-> <<((q - 1) \div n) + 1, ((q - 1) % n) + 1>>]
        hit == SelectSeq(pairs, LAMBDA ij : ij[1] # ij[2] /\ SharesPoint(walls[ij[1]], walls[ij[2]]))
    IN  [q \in 1..Len(hit) |->
            [corner |-> CornerOf(walls[hit[q][1]], walls[hit[q][2]]),
             wall1 |-> walls[hit[q][1]], wall2 |-> walls[hit[q][2]]]]

\* v * d / |v| componentwise, rounded toward zero
DivT(a, b) == IF a >= 0 THEN a \div b ELSE -((-a) \div b)
ScaledTo(v, d) ==
    LET n == VNorm(v)
    IN  IF n = 0 THEN <<0, 0>> ELSE <<DivT(v[1] * d, n), DivT(v[2] * d, n)>>

\* lines 692-699: the corner moved by (wall1_unit + wall2_unit) * width / 2
CornerPos(c, shower) ==
    LET offset == Half(shower.width_px)
    IN  VAdd(ToSub(c.corner),
             VAdd(ScaledTo(WallVec(c.wall1), offset), ScaledTo(WallVec(c.wall2), offset)))

Swapped(f) == [f EXCEPT !.width_px = f.height_px, !.height_px = f.width_px]

\* lines 702-722 at one corner: the item as passed at the wall angle and at
\* 45 degrees more, then swapped at the same two angles; the swap stays
TryCornerAt(f, pos, a, room_polygon, polys) ==
    OrElse(PlaceItemAtPos(f, pos, a, room_polygon, polys),
    OrElse(PlaceItemAtPos(f, pos, a + 45, room_polygon, polys),
    OrElse(PlaceItemAtPos(Swapped(f), pos, a, room_polygon, polys),
    OrElse(PlaceItemAtPos(Swapped(f), pos, a + 45, room_polygon, polys),
           NotPlaced(Swapped(f))))))
TryCorner(f, c, room_polygon, polys) ==
    TryCornerAt(f, CornerPos(c, f), WallAngle(WallVec(c.wall1)), room_polygon, polys)

\* the corners in order; a corner that fails passes the item on swapped
RECURSIVE TryCorners(_, _, _, _)
TryCorners(f, corners, room_polygon, polys) ==
    IF corners = <<>> THEN NotPlaced(f)
    ELSE OrElse(TryCorner(f, Head(corners), room_polygon, polys),
                TryCorners(Swapped(f), Tail(corners), room_polygon, polys))

\* lines 670-736: the corners, then any wall
PlaceShower(shower, room, room_polygon, polys) ==
    OrOnAnyWall(TryCorners(shower, Corners(GetWalls(room.bounding_box)), room_polygon, polys),
                room, room_polygon, polys)

\* one iteration of the loop of lines 665-736
BathroomShower ==
    /\ pc = "bathroom"
    /\ lists.sink_items = <<>> /\ lists.bathtub_items = <<>> /\ lists.shower_items # <<>>
    /\ CommitCounted(Head(lists.shower_items),
                     PlaceShower(items[Head(lists.shower_items)], Room, RoomPolygon(Room), placed_polygons))
    /\ lists' = [lists EXCEPT !.shower_items = Tail(@)]
    /\ UNCHANGED <<inputs, furniture_prototypes, placed_furniture, pc, cur, k, all_furniture,
                   stock, drawLog>>

\* the loops of lines 739-748 and 751-759 run after the shower loop
BathroomLoopsDone ==
    lists.sink_items = <<>> /\ lists.bathtub_items = <<>> /\ lists.shower_items = <<>>

\* one iteration of the loop of lines 739-748
BathroomCommode ==
    /\ pc = "bathroom"
    /\ BathroomLoopsDone /\ lists.commode_items # <<>>
    /\ CommitCounted(Head(lists.commode_items),
                     PlaceAgainstWall(items[Head(lists.commode_items)], Room.bounding_box,
                                      RoomPolygon(Room), placed_polygons))
    /\ lists' = [lists EXCEPT !.commode_items = Tail(@)]
    /\ UNCHANGED <<inputs, furniture_prototypes, placed_furniture, pc, cur, k, all_furniture,
                   stock, drawLog>>

\* one iteration of the loop of lines 751-759
BathroomOther ==
    /\ pc = "bathroom"
    /\ BathroomLoopsDone /\ lists.commode_items = <<>> /\ lists.other_furniture # <<>>
    /\ CommitCounted(Head(lists.other_furniture),
                     PlaceAgainstWall(items[Head(lists.other_furniture)], Room.bounding_box,
                                      RoomPolygon(Room), placed_polygons))
    /\ lists' = [lists EXCEPT !.other_furniture = Tail(@)]
    /\ UNCHANGED <<inputs, furniture_prototypes, placed_furniture, pc, cur, k, all_furniture,
                   stock, drawLog>>

\* line 768
BathroomReturn ==
    /\ pc = "bathroom"
    /\ BathroomLoopsDone /\ lists.commode_items = <<>> /\ lists.other_furniture = <<>>
    /\ EndRoom
    /\ UNCHANGED <<inputs, furniture_prototypes, items, placement_stats, cur, roomLocals,
                   stock, drawLog>>

\* --------------------------------------------------- living-room strategy
\* pop_items (lines 327-336): the items with one of the names, largest area
\* first, and the others in their order
Popped(ids, names) == SortByArea(SelectSeq(ids, LAMBDA i : items[i].name \in names))
Remaining(ids, names) == SelectSeq(ids, LAMBDA i : items[i].name \notin names)

\* _place_in_living_room lines 338-347
LivingCategorize ==
    /\ Drawn
    /\ RoomType = "living_room"
    /\ LET kitchen_items == Popped(all_furniture, {"kitchen"})
           a1 == Remaining(all_furniture, {"kitchen"})
           stove_items == Popped(a1, {"stove"})
           a2 == Remaining(a1, {"stove"})
           tv_items == Popped(a2, {"tv"})
           a3 == Remaining(a2, {"tv"})
           sofas == Popped(a3, {"Lsofa", "sofa"})
           a4 == Remaining(a3, {"Lsofa", "sofa"})
           tables == Popped(a4, {"table", "diningtable"})
           a5 == Remaining(a4, {"table", "diningtable"})
       IN  lists' = [lists EXCEPT
                !.kitchen = FirstN(kitchen_items, 1),
                !.stove = FirstN(stove_items, 1),
                !.tv = FirstN(tv_items, 1),
                !.sofas = sofas,
                !.dining_tables = Popped(tables, {"diningtable"}),
                !.tables = Remaining(tables, {"diningtable"}),
                !.rest = a5]
    /\ pc' = "kitchen"
    /\ UNCHANGED <<inputs, furniture_prototypes, items, placed_furniture, placement_stats,
                   cur, k, all_furniture, placed_in_this_room, placed_polygons, stock, drawLog>>

\* lines 351-353: the walls, shortest first (a stable sort of the
\* longest-first list)
ByLength(w) == [i \in 1..Len(w) |-> [key |-> WallLen2(w[i]), val |-> w[i]]]
WallsShortestFirst(bounding_box) == Vals(SortAsc(ByLength(GetWalls(bounding_box))))
WallsLongestFirst(bounding_box) == GetWalls(bounding_box)

\* lines 362-366, 432-434: long side forced wall-parallel on the first of
\* the short walls, else any wall.  on_target tells which.
OnTarget(r, flag) == [ok |-> r.ok, poly |-> r.poly, f |-> r.f, on_target |-> flag]
TargetOrElse(r, g) == IF r.ok THEN OnTarget(r, TRUE) ELSE OnTarget(g, FALSE)
PlaceKitchenAs(f, room, room_polygon, polys) ==
    TargetOrElse(PlaceItemOnWall(f, WallsShortestFirst(room.bounding_box)[1], room_polygon,
                                 polys, TRUE),
                 Keep(PlaceAgainstWall(f, room.bounding_box, room_polygon, polys), f))
PlaceKitchen(kitchen, room, room_polygon, polys) ==
    PlaceKitchenAs(LongSideAsWidth(kitchen), room, room_polygon, polys)

\* the first pose of a list of [f, pos, angle] attempts that
\* _place_item_at_pos accepts
RECURSIVE FirstPose(_, _, _, _)
FirstPose(attempts, room_polygon, polys, last) ==
    IF attempts = <<>> THEN NotPlaced(last)
    ELSE OrElse(PlaceItemAtPos(Head(attempts).f, Head(attempts).pos, Head(attempts).angle,
                               room_polygon, polys),
                FirstPose(Tail(attempts), room_polygon, polys, Head(attempts).f))

\* lines 376-427: the stove oriented like the kitchen, beside it along the
\* wall (right, left, right closer, left closer), else against any wall
StoveAt(f, kitchen, wall_vec, d) ==
    [f |-> f, pos |-> VAdd(ToSub(kitchen.position_px), ScaledTo(wall_vec, d)),
     angle |-> kitchen.angle]
StoveAttempts(f, kitchen, wall_vec, offset) ==
    <<StoveAt(f, kitchen, wall_vec, offset), StoveAt(f, kitchen, wall_vec, -offset),
      StoveAt(f, kitchen, wall_vec, offset - StoveCloser * Den),
      StoveAt(f, kitchen, wall_vec, -(offset - StoveCloser * Den))>>
PlaceStoveAs(f, kitchen, room, room_polygon, polys) ==
    OrOnAnyWall(FirstPose(StoveAttempts(f, kitchen,
                                        WallVec(WallsShortestFirst(room.bounding_box)[1]),
                                        Half(kitchen.width_px + f.width_px) + Gap * Den),
                          room_polygon, polys, f),
                room, room_polygon, polys)
PlaceStove(stove, kitchen, room, room_polygon, polys) ==
    PlaceStoveAs(IF kitchen.width_px >= kitchen.height_px
                 THEN LongSideAsWidth(stove) ELSE LongSideAsHeight(stove),
                 kitchen, room, room_polygon, polys)

\* lines 368-430: the kitchen placed on the target wall is followed by the
\* stove, checked against the kitchen's footprint too
KitchenThenStove(kid, r) ==
    IF r.ok /\ r.on_target /\ lists.stove # <<>>
    THEN CommitPair(kid, r, lists.stove[1],
                    PlaceStove(items[lists.stove[1]], r.f, Room, RoomPolygon(Room),
                               Append(placed_polygons, r.poly)))
    ELSE Commit(kid, r)

\* _place_in_living_room lines 349-437: kitchen, then the stove beside it
LivingKitchen ==
    /\ pc = "kitchen"
    /\ IF lists.kitchen # <<>>
       THEN KitchenThenStove(lists.kitchen[1],
                             PlaceKitchen(items[lists.kitchen[1]], Room, RoomPolygon(Room),
                                          placed_polygons))
       ELSE UNCHANGED <<items, placed_in_this_room, placed_polygons>>
    /\ pc' = "tv"
    /\ UNCHANGED <<inputs, furniture_prototypes, placed_furniture, placement_stats, cur, k,
                   all_furniture, lists, stock, drawLog>>

\* position_px of the single item of a list when it has one, else dflt
\* (lines 442, 504-505); pixels
PosOr(l, dflt) ==
    IF l # <<>> /\ items[l[1]].position_px # NoPos THEN items[l[1]].position_px ELSE dflt

\* line 443: the wall whose midpoint is farthest from the kitchen
BestTvWall(bounding_box, kitchen_pos) == WallsFarthestFirst(bounding_box, kitchen_pos)[1]

\* _place_in_living_room lines 439-448
LivingTv ==
    /\ pc = "tv"
    /\ IF lists.tv # <<>>
       THEN LET id == lists.tv[1]
                best_wall == BestTvWall(Room.bounding_box, PosOr(lists.kitchen, <<0, 0>>))
                r == PlaceItemOnWall(items[id], best_wall, RoomPolygon(Room), placed_polygons, FALSE)
            IN  Commit(id, r)
       ELSE UNCHANGED <<items, placed_in_this_room, placed_polygons>>
    /\ pc' = "sofa"
    /\ UNCHANGED <<inputs, furniture_prototypes, placed_furniture, placement_stats, cur, k,
                   all_furniture, lists, stock, drawLog>>

\* lines 454-459, 470: the point at distance d (sub-pixel units) from the
\* television along the viewing axis, toward the room centroid
AlongViewingAxis(tv_pos, centroid, d) ==
    LET v == VSub(centroid, ToSub(tv_pos))
    IN  VAdd(ToSub(tv_pos), IF VNorm(v) > 0 THEN ScaledTo(v, d) ELSE <<0, d>>)

ViewingDist(sofa) == Half(sofa.height_px) + SofaBuffer * Den
SofaAngleSame(tv) == tv.angle
SofaAngle(tv) == tv.angle + 180

\* lines 466-477: the coffee table half way, at the television's angle; a
\* table that is placed leaves the tables
CommitSofaAndTable(sid, r, cid, q) ==
    /\ CommitPair(sid, r, cid, q)
    /\ lists' = [lists EXCEPT !.sofas = Tail(@), !.tables = IF q.ok THEN Tail(@) ELSE @]
SofaThenTable(sid, r, tv, centroid, dist) ==
    IF r.ok /\ lists.tables # <<>>
    THEN CommitSofaAndTable(sid, r, Head(lists.tables),
                            PlaceItemAtPos(items[Head(lists.tables)],
                                           AlongViewingAxis(tv.position_px, centroid, dist \div 2),
                                           tv.angle, RoomPolygon(Room),
                                           Append(placed_polygons, r.poly)))
    ELSE /\ Commit(sid, r)
         /\ lists' = [lists EXCEPT !.sofas = Tail(@)]

\* _place_in_living_room lines 450-477: the largest sofa in front of the
\* television, then a coffee table between them
LivingSofa ==
    /\ pc = "sofa"
    /\ IF lists.sofas # <<>> /\ lists.tv # <<>> /\ InSeq(lists.tv[1], placed_in_this_room)
       THEN SofaThenTable(Head(lists.sofas),
                          PlaceItemAtPos(items[Head(lists.sofas)],
                                         AlongViewingAxis(items[lists.tv[1]].position_px,
                                                          PolyCentroid(RoomPolygon(Room)),
                                                          ViewingDist(items[Head(lists.sofas)])),
                                         SofaAngle(items[lists.tv[1]]), RoomPolygon(Room),
                                         placed_polygons),
                          items[lists.tv[1]], PolyCentroid(RoomPolygon(Room)),
                          ViewingDist(items[Head(lists.sofas)]))
       ELSE UNCHANGED <<items, placed_in_this_room, placed_polygons, lists>>
    /\ pc' = "dining"
    /\ UNCHANGED <<inputs, furniture_prototypes, placed_furniture, placement_stats, cur, k,
                   all_furniture, stock, drawLog>>

\* lines 487-498: each wall's angle modulo 180 and its perpendicular
MainAngles(bounding_box) ==
    LET w == GetWalls(bounding_box)
    IN  [q \in 1..(2 * Len(w)) |->
            LET angle == WallAngle(WallVec(w[(q + 1) \div 2])) % 180
            IN  IF q % 2 = 1 THEN angle ELSE (angle + 90) % 180]

\* lines 501-515: DiningOffset from the room centre, away from the
\* television and the kitchen
DiningTarget(room_center, tv_pos, kitchen_pos) ==
    LET combined_vec == VAdd(VSub(room_center, tv_pos), VSub(room_center, kitchen_pos))
    IN  IF VNorm(combined_vec) > 0
        THEN VAdd(room_center, ScaledTo(combined_vec, DiningOffset * Den))
        ELSE room_center

\* lines 518-554: both orientations at the room's angles, then at 0, 45, 90,
\* 135, then against any wall
DiningAttempts(f, target_pos, main_angles, fixed_angles) ==
    [q \in 1..(2 * Len(main_angles)) |->
        [f |-> IF q <= Len(main_angles) THEN f ELSE Swapped(f), pos |-> target_pos,
         angle |-> main_angles[((q - 1) % Len(main_angles)) + 1]]]
    \o [q \in 1..(2 * Len(fixed_angles)) |->
        [f |-> IF q <= Len(fixed_angles) THEN f ELSE Swapped(f), pos |-> target_pos,
         angle |-> fixed_angles[((q - 1) % Len(fixed_angles)) + 1]]]
PlaceDiningTable(f, target_pos, room, room_polygon, polys) ==
    OrOnAnyWall(FirstPose(DiningAttempts(f, target_pos, MainAngles(room.bounding_box),
                                         <<0, 45, 90, 135>>),
                          room_polygon, polys, f),
                room, room_polygon, polys)

\* _place_in_living_room lines 479-558
LivingDining ==
    /\ pc = "dining"
    /\ IF lists.dining_tables # <<>>
       THEN LET id == Head(lists.dining_tables)
                room_center == PolyCentroid(RoomPolygon(Room))
                tv_pos == IF lists.tv # <<>> /\ items[lists.tv[1]].position_px # NoPos
                          THEN ToSub(items[lists.tv[1]].position_px) ELSE room_center
                kitchen_pos == IF lists.kitchen # <<>> /\ items[lists.kitchen[1]].position_px # NoPos
                               THEN ToSub(items[lists.kitchen[1]].position_px) ELSE room_center
                r == PlaceDiningTable(items[id], DiningTarget(room_center, tv_pos, kitchen_pos),
                                      Room, RoomPolygon(Room), placed_polygons)
            IN  Commit(id, r)
       ELSE UNCHANGED <<items, placed_in_this_room, placed_polygons>>
    /\ lists' = [lists EXCEPT
            !.dining_tables = IF @ = <<>> THEN @ ELSE Tail(@),
            !.todo = SortByArea(lists.sofas \o lists.tables
                                \o (IF lists.dining_tables = <<>> THEN <<>> ELSE Tail(lists.dining_tables))
                                \o lists.rest)]
    /\ pc' = "living_rest"
    /\ UNCHANGED <<inputs, furniture_prototypes, placed_furniture, placement_stats, cur, k,
                   all_furniture, stock, drawLog>>

\* lines 564-568, one remaining item (no statistics are kept here)
LivingRemaining ==
    /\ pc = "living_rest"
    /\ lists.todo # <<>>
    /\ LET id == Head(lists.todo)
           r == PlaceAgainstWall(items[id], Room.bounding_box, RoomPolygon(Room), placed_polygons)
       IN  Commit(id, r)
    /\ lists' = [lists EXCEPT !.todo = Tail(@)]
    /\ UNCHANGED <<inputs, furniture_prototypes, placed_furniture, placement_stats, pc, cur, k,
                   all_furniture, stock, drawLog>>

\* line 570
LivingReturn ==
    /\ pc = "living_rest"
    /\ lists.todo = <<>>
    /\ EndRoom
    /\ UNCHANGED <<inputs, furniture_prototypes, items, placement_stats, cur, roomLocals,
                   stock, drawLog>>

\* ----------------------------------------------------------------- inputs
\* an axis-parallel rectangle as boxPoints lists it, from corner (x, y)
Rect(x, y, w, h) == << <<x, y>>, <<x + w, y>>, <<x + w, y + h>>, <<x, y + h>> >>
\* the same rectangle without the w2 x h2 block at its corner (x + w, y)
LShape(x, y, w, h, w2, h2) ==
    << <<x, y>>, <<x + w - w2, y>>, <<x + w - w2, y + h2>>, <<x + w, y + h2>>,
       <<x + w, y + h>>, <<x, y + h>> >>

\* a rectangular room: the contour is the bounding box
RectRoom(t, x, y, w, h) == [type |-> t, bounding_box |-> Rect(x, y, w, h), contour |-> Rect(x, y, w, h)]
\* an L-shaped room: minAreaRect of the contour is its bounding rectangle
LRoom(t, x, y, w, h, w2, h2) ==
    [type |-> t, bounding_box |-> Rect(x, y, w, h), contour |-> LShape(x, y, w, h, w2, h2)]

\* the measurement table converted to item sizes: the n-th entry of a
\* category
CatalogSize(c, n) ==
    LET base == CASE c = "Lsofa" -> <<600, 400>>
                  [] c = "sofa" -> <<500, 200>>
                  [] c = "tv" -> <<300, 60>>
                  [] c = "table" -> <<200, 200>>
                  [] c = "diningtable" -> <<400, 300>>
                  [] c = "kitchen" -> <<150, 600>>
                  [] c = "stove" -> <<150, 140>>
                  [] c = "sink" -> <<100, 130>>
                  [] c = "bed" -> <<500, 410>>
                  [] c = "singlebed" -> <<400, 250>>
                  [] c = "bedside" -> <<100, 100>>
                  [] c = "study" -> <<300, 150>>
                  [] c = "bathtub" -> <<210, 400>>
                  [] c = "shower" -> <<200, 180>>
                  [] c = "commode" -> <<100, 120>>
    IN  <<base[1] + 21 * (n - 1), base[2]>>

\* load_furniture_prototypes (lines 27-37): the instances in table order;
\* table[c] lists the sizes of the entries named c
RECURSIVE LoadItems(_, _, _)
LoadItems(cats, table, acc) ==
    IF cats = <<>> THEN acc
    ELSE LET c == Head(cats)
             new == [n \in 1..Len(table[c]) |-> Furniture(c, table[c][n][1], table[c][n][2])]
         IN  LoadItems(Tail(cats), table, acc \o new)
\* the queue of every category that has an entry: its ids in table order
LoadPool(its) ==
    [c \in {its[i].name : i \in 1..Len(its)} |->
        SelectSeq([i \in 1..Len(its) |-> i], LAMBDA i : its[i].name = c)]

\* the table with count[c] entries of category c
Table(count) == [c \in Categories |-> [n \in 1..count[c] |-> CatalogSize(c, n)]]

EssentialCategories == {"bed", "study", "singlebed", "bathtub", "sink", "sofa", "tv"}

\* a furniture map that also furnishes the default rooms and repeats a
\* category in a list
CustomMap ==
    [t \in RoomTypes |->
        CASE t = "living_room" -> FURNITURE_ROOM_MAP[t]
          [] t = "bedroom_master" -> <<"bed", "bedside", "study", "study", "table", "commode">>
          [] t = "bedroom_guest" -> FURNITURE_ROOM_MAP[t]
          [] t = "bedroom" -> FURNITURE_ROOM_MAP[t]
          [] t = "bathroom" -> <<"bathtub", "shower", "sink", "commode", "table">>
          [] t = "hallway" -> <<"sofa", "table">>
          [] t = "empty_room" -> <<"table", "table">>]

\* the room at position n of the room mapping
RoomAt(t, n) ==
    CASE n % 3 = 1 -> LRoom(t, 300, 10, 180, 150, 90, 75)
      [] n % 3 = 2 -> RectRoom(t, 10, 300, 101, 87)
      [] n % 3 = 0 -> RectRoom(t, 10, 10, 200, 160)

TypeSeqs(n) == [1..n -> RoomTypes]

\* differentiate_room_subtypes (main.py lines 306-328): a plan with one
\* bedroom keeps the label bedroom; with more, the largest is the master
\* and the others are guest bedrooms
CountOf(types, t) == Cardinality({i \in 1..Len(types) : types[i] = t})
Labelled(types) ==
    \/ /\ CountOf(types, "bedroom") <= 1
       /\ CountOf(types, "bedroom_master") = 0
       /\ CountOf(types, "bedroom_guest") = 0
    \/ /\ CountOf(types, "bedroom") = 0
       /\ CountOf(types, "bedroom_master") = 1
       /\ CountOf(types, "bedroom_guest") >= 1

TypeOK ==
    /\ pc \in {"main", "place_all", "next_room", "draw", "default", "bed", "bedside",
               "more_study", "bedroom_rest", "bathroom", "kitchen", "tv", "sofa", "dining",
               "living_rest", "done"}
    /\ cur \in 0..Len(rooms_info)
    /\ Len(placed_furniture) <= Len(rooms_info)

\* the state main() hands to ensure_essential_furniture and place_all
Start(rooms, map, its) ==
    /\ rooms_info = rooms
    /\ furniture_map = map
    /\ items = its
    /\ furniture_prototypes = LoadPool(its)
    /\ placed_furniture = <<>>
    /\ placement_stats = [t \in {} |-> ZeroStats]
    /\ pc = "main"
    /\ cur = 0
    /\ k = 1
    /\ all_furniture = <<>>
    /\ lists = NoLists
    /\ placed_in_this_room = <<>>
    /\ placed_polygons = <<>>
    /\ stock = LoadPool(its)
    /\ drawLog = <<>>

\* a floor plan of up to MaxRooms rooms, labelled as main.py labels them,
\* in any iteration order; the shipped furniture map or a customised one;
\* a catalog with e entries of every essential category and o entries of
\* every other category
Init ==
    \E n \in 1..MaxRooms : \E types \in TypeSeqs(n) :
    \E e \in 0..MaxStock, o \in 0..MaxStock :
    \E map \in IF e = o THEN {FURNITURE_ROOM_MAP, CustomMap} ELSE {FURNITURE_ROOM_MAP} :
        /\ Labelled(types)
        /\ Start([i \in 1..n |-> RoomAt(types[i], i)], map,
              LoadItems(CategoryOrder,
                        Table([c \in Categories |-> IF c \in EssentialCategories THEN e ELSE o]),
                        <<>>))

Next ==
    \/ EnsureEssential
    \/ InitStats
    \/ NextRoom
    \/ ReturnLayout
    \/ DrawStep
    \/ DefaultSort
    \/ DefaultPlace
    \/ DefaultReturn
    \/ BedroomCategorize
    \/ BedroomBed
    \/ BedroomBedside
    \/ BedroomStudy
    \/ BedroomMoreStudy
    \/ BedroomSortRemaining
    \/ BedroomRemaining
    \/ BedroomReturn
    \/ BathroomCategorize
    \/ BathroomSink
    \/ BathroomBathtub
    \/ BathroomShower
    \/ BathroomCommode
    \/ BathroomOther
    \/ BathroomReturn
    \/ LivingCategorize
    \/ LivingKitchen
    \/ LivingTv
    \/ LivingSofa
    \/ LivingDining
    \/ LivingRemaining
    \/ LivingReturn

Spec == Init /\ [][Next]_vars

\* main and place_all are one sequential run: a step that can be taken is
\* taken.  For the steps of place_all between the rooms that is weak
\* fairness of Control.  Everywhere else, Stepping, a step of main, of the
\* draw or of the room's strategy can be taken, and weak fairness of Next is
\* written with that enabling condition spelled out.
Control == InitStats \/ NextRoom \/ ReturnLayout
Stepping == pc \notin {"place_all", "next_room", "done"}
SpecLive ==
    /\ Init /\ [][Next]_vars
    /\ WF_vars(Control)
    /\ ([]<>~Stepping \/ []<><<Next>>_vars)

\* ------------------------------------------- one room, default strategy
\* room sizes (width, height) in pixels and item sizes (width, height)
FitBoxes == << <<400, 300>>, <<100, 100>>, <<400, 100>>, <<101, 87>>, <<120, 260>>, <<86, 61>> >>
FitSizes ==
    << <<1800, 1200>>, <<900, 900>>, <<500, 1500>>, <<500, 3000>>, <<252, 130>>, <<310, 205>> >>

\* a catalog of n tables of size a and n sofas of size b
FitTable(a, b, n) ==
    [c \in Categories |->
        IF c = "table" THEN [i \in 1..n |-> a]
        ELSE IF c = "sofa" THEN [i \in 1..n |-> b]
        ELSE <<>>]

\* one rectangular room that the default strategy furnishes under the
\* customised map: two tables (empty_room) or a sofa and a table (hallway)
InitFit ==
    \E t \in {"hallway", "empty_room"} :
    \E b \in 1..Len(FitBoxes), s1 \in 1..Len(FitSizes), s2 \in 1..Len(FitSizes) :
    \E n \in 1..MaxStock :
        /\ (t = "empty_room" => s2 = s1)
        /\ Start(<<RectRoom(t, 10, 10, FitBoxes[b][1], FitBoxes[b][2])>>, CustomMap,
                 LoadItems(CategoryOrder, FitTable(FitSizes[s1], FitSizes[s2], n), <<>>))

NextFit ==
    \/ EnsureEssential
    \/ InitStats
    \/ NextRoom
    \/ ReturnLayout
    \/ DrawStep
    \/ DefaultSort
    \/ DefaultPlace
    \/ DefaultReturn

SpecFit == InitFit /\ [][NextFit]_vars

\* -------------------------------------------- one living room, as shipped
\* living rooms: rectangles of even and odd size, one too small for the
\* kitchen counter, one whose short walls are shorter than the counter, and
\* an L-shaped room
LivingRooms ==
    << RectRoom("living_room", 10, 10, 200, 160),
       RectRoom("living_room", 10, 10, 25, 25),
       RectRoom("living_room", 10, 10, 200, 50),
       RectRoom("living_room", 10, 10, 201, 161),
       RectRoom("living_room", 10, 10, 260, 191),
       LRoom("living_room", 300, 10, 180, 150, 90, 75) >>
\* television and sofa sizes (width, height)
TvSizes == << <<300, 60>>, <<301, 65>> >>
SofaSizes == << <<500, 200>>, <<500, 205>>, <<520, 201>> >>

\* a catalog of one television and one sofa of the given sizes, nk kitchens
\* and stoves, nt tables and sinks
LivingTable(tv, sofa, nk, nt) ==
    [c \in Categories |->
        CASE c = "tv" -> <<tv>>
          [] c = "sofa" -> <<sofa>>
          [] c \in {"kitchen", "stove"} -> [i \in 1..nk |-> CatalogSize(c, i)]
          [] c \in {"table", "sink"} -> [i \in 1..nt |-> CatalogSize(c, i)]
          [] OTHER -> <<>>]

\* one living room furnished under the shipped furniture map
InitLiving ==
    \E r \in 1..Len(LivingRooms), t \in 1..Len(TvSizes), s \in 1..Len(SofaSizes) :
    \E nk \in 0..1, nt \in 0..1 :
        Start(<<LivingRooms[r]>>, FURNITURE_ROOM_MAP,
              LoadItems(CategoryOrder, LivingTable(TvSizes[t], SofaSizes[s], nk, nt), <<>>))

NextLiving ==
    \/ EnsureEssential
    \/ InitStats
    \/ NextRoom
    \/ ReturnLayout
    \/ DrawStep
    \/ LivingCategorize
    \/ LivingKitchen
    \/ LivingTv
    \/ LivingSofa
    \/ LivingDining
    \/ LivingRemaining
    \/ LivingReturn

SpecLiving == InitLiving /\ [][NextLiving]_vars

\* ------------------------------------------------- two bedrooms of a plan
\* bedroom sizes (width, height) in pixels, smallest first
BedBoxes == << <<30, 25>>, <<60, 50>>, <<101, 87>>, <<200, 160>> >>

\* a catalog of nb beds and single beds, ns study desks and nt tables
BedroomTable(nb, ns, nt) ==
    [c \in Categories |->
        CASE c \in {"bed", "singlebed"} -> [i \in 1..nb |-> CatalogSize(c, i)]
          [] c = "study" -> [i \in 1..ns |-> CatalogSize(c, i)]
          [] c = "table" -> [i \in 1..nt |-> CatalogSize(c, i)]
          [] OTHER -> <<>>]

\* the master bedroom, the larger one, and a guest bedroom, furnished under
\* the shipped furniture map or the customised one
InitBedroom ==
    \E bm \in 1..Len(BedBoxes), bg \in 1..Len(BedBoxes) :
    \E nb \in 0..1, ns \in 0..MaxStock, nt \in 0..MaxStock :
    \E map \in {FURNITURE_ROOM_MAP, CustomMap} :
        /\ bg <= bm
        /\ Start(<<RectRoom("bedroom_master", 10, 10, BedBoxes[bm][1], BedBoxes[bm][2]),
                   RectRoom("bedroom_guest", 10, 300, BedBoxes[bg][1], BedBoxes[bg][2])>>,
                 map, LoadItems(CategoryOrder, BedroomTable(nb, ns, nt), <<>>))

NextBedroom ==
    \/ EnsureEssential
    \/ InitStats
    \/ NextRoom
    \/ ReturnLayout
    \/ DrawStep
    \/ BedroomCategorize
    \/ BedroomBed
    \/ BedroomBedside
    \/ BedroomStudy
    \/ BedroomMoreStudy
    \/ BedroomSortRemaining
    \/ BedroomRemaining
    \/ BedroomReturn

SpecBedroom == InitBedroom /\ [][NextBedroom]_vars

\* ------------------------------------------------------------ one bathroom
\* bathroom sizes (width, height) in pixels
BathBoxes == << <<12, 12>>, <<60, 40>>, <<101, 87>>, <<200, 160>> >>

\* a catalog with the given number of entries of each bathroom category and
\* of tables
BathTable(n) ==
    [c \in Categories |->
        IF c \in DOMAIN n THEN [i \in 1..n[c] |-> CatalogSize(c, i)] ELSE <<>>]

InitBath ==
    \E b \in 1..Len(BathBoxes) :
    \E n \in [{"sink", "bathtub", "shower", "commode", "table"} -> 0..1] :
    \E map \in {FURNITURE_ROOM_MAP, CustomMap} :
        Start(<<RectRoom("bathroom", 10, 10, BathBoxes[b][1], BathBoxes[b][2])>>,
              map, LoadItems(CategoryOrder, BathTable(n), <<>>))

NextBath ==
    \/ EnsureEssential
    \/ InitStats
    \/ NextRoom
    \/ ReturnLayout
    \/ DrawStep
    \/ BathroomCategorize
    \/ BathroomSink
    \/ BathroomBathtub
    \/ BathroomShower
    \/ BathroomCommode
    \/ BathroomOther
    \/ BathroomReturn

SpecBath == InitBath /\ [][NextBath]_vars


\* ------------------------------------------------------------- properties
\* the footprint built from an item's committed pose (position, angle,
\* width, height)
CommittedPoly(id) ==
    GetFurniturePolygon(items[id].width_px, items[id].height_px,
                        ToSub(items[id].position_px), items[id].angle)

\* the sub-pixel point p lies on the boundary of the polygon R (pixels)
OnBoundary(R, p) ==
    \E i \in 1..Len(R) : OnSegment(p, ToSub(R[i]), ToSub(R[NextIdx(R, i)]))

\* the draws of category c so far, and those of room r
Draws(c) == Cardinality({i \in 1..Len(drawLog) : drawLog[i].cat = c})
Received(r, c) ==
    Cardinality({i \in 1..Len(drawLog) : drawLog[i].room = r /\ drawLog[i].cat = c})
\* how often the category list of room r names c, and how often the lists
\* of the rooms before r do
ListOf(r) ==
    IF rooms_info[r].type \in DOMAIN furniture_map THEN furniture_map[rooms_info[r].type]
    ELSE <<>>
Listed(r, c) == Cardinality({j \in 1..Len(ListOf(r)) : ListOf(r)[j] = c})
ListedBefore(r, c) ==
    Cardinality({q \in (1..(r - 1)) \X (1..Len(CategoryOrder)) :
                    q[2] <= Len(ListOf(q[1])) /\ ListOf(q[1])[q[2]] = c})

\* the categories that are essential for the type of room r
EssentialOf(r) ==
    IF rooms_info[r].type \in DOMAIN ESSENTIAL_FURNITURE
    THEN {ESSENTIAL_FURNITURE[rooms_info[r].type][i] :
              i \in 1..Len(ESSENTIAL_FURNITURE[rooms_info[r].type])}
    ELSE {}
\* the number of rooms of type t
RoomsOfType(t) == Cardinality({r \in 1..Len(rooms_info) : rooms_info[r].type = t})

\* C1: after place_all, no two items of a room's placed list have
\* overlapping footprints, the footprints built from the committed poses
\* (position, angle, width, height).  Footprints that only share boundary
\* points are not counted as a violation here.
C1_NonOverlap ==
    pc = "done" =>
        \A r \in 1..Len(placed_furniture) :
            \A i \in 1..Len(placed_furniture[r]), j \in 1..Len(placed_furniture[r]) :
                i < j => ~OverlapsInArea(CommittedPoly(placed_furniture[r][i]),
                                         CommittedPoly(placed_furniture[r][j]))

\* C2: after place_all, the centroid of every placed item's footprint lies
\* inside the boundary polygon (the contour) of its room, living rooms
\* included.  A centroid on the boundary itself is not counted as a
\* violation here.
C2_CentroidInside ==
    pc = "done" =>
        \A r \in 1..Len(placed_furniture) :
            \A i \in 1..Len(placed_furniture[r]) :
                \/ PolyContains(ContourOrBox(rooms_info[r]),
                                FootprintCentroid(CommittedPoly(placed_furniture[r][i])))
                \/ OnBoundary(ContourOrBox(rooms_info[r]),
                              FootprintCentroid(CommittedPoly(placed_furniture[r][i])))

\* C3: every vertex of every footprint the placement accepted lies in the
\* room's boundary polygon or on its boundary (the whole footprint is
\* within the room).
C3_FootprintInside ==
    cur > 0 =>
        \A i \in 1..Len(placed_polygons) : \A v \in 1..4 :
            \/ PolyContains(ContourOrBox(Room), placed_polygons[i][v])
            \/ OnBoundary(ContourOrBox(Room), placed_polygons[i][v])

\* C4: pool conservation.  At every point of place_all, for every category
\* the draws so far do not exceed the stock (originals plus essential
\* duplicates), no instance has been drawn twice, and every drawn instance
\* has left its queue: the queue holds the stock minus the draws.
C4_PoolConservation ==
    pc # "main" =>
        /\ \A c \in Categories :
              /\ Draws(c) <= Len(Queue(stock, c))
              /\ Len(Queue(furniture_prototypes, c)) = Len(Queue(stock, c)) - Draws(c)
        /\ \A i \in 1..Len(drawLog), j \in 1..Len(drawLog) :
              i # j => drawLog[i].id # drawLog[j].id
        /\ \A i \in 1..Len(drawLog) : \A c \in Categories :
              ~InSeq(drawLog[i].id, Queue(furniture_prototypes, c))
\* a run that has drawn the whole stock, two or more instances, of a category
C4_Witness ==
    /\ pc = "done"
    /\ \E c \in Categories : Len(Queue(stock, c)) >= 2 /\ Draws(c) = Len(Queue(stock, c))

\* C5: essential guarantee.  When ensure_essential_furniture runs, for every
\* room type that N >= 1 rooms share and every category essential for it
\* whose queue is not empty, the queue afterwards holds at least N
\* instances: first the originals, unchanged, in their order and not
\* flagged essential, then duplicates of the first original, all flagged
\* essential.
C5_EssentialGuarantee ==
    [][pc = "main" =>
        \A t \in DOMAIN ESSENTIAL_FURNITURE :
            \A e \in 1..Len(ESSENTIAL_FURNITURE[t]) :
                LET c == ESSENTIAL_FURNITURE[t][e]
                    q0 == Queue(furniture_prototypes, c)
                    q1 == Queue(furniture_prototypes', c)
                IN  (RoomsOfType(t) >= 1 /\ q0 # <<>>) =>
                        /\ Len(q1) >= RoomsOfType(t)
                        /\ Len(q1) >= Len(q0)
                        /\ \A i \in 1..Len(q0) :
                              /\ q1[i] = q0[i]
                              /\ items'[q1[i]] = items[q0[i]]
                              /\ ~items'[q1[i]].essential
                        /\ \A i \in (Len(q0) + 1)..Len(q1) :
                              items'[q1[i]] = [items[q0[1]] EXCEPT !.essential = TRUE]
    ]_vars
\* ensure_essential_furniture has appended a duplicate to a queue
C5_Witness ==
    /\ pc = "place_all"
    /\ \E c \in Categories : \E i \in 1..Len(Queue(stock, c)) :
          i >= 2 /\ items[stock[c][i]].essential /\ ~items[stock[c][1]].essential

\* C6: after ensure_essential_furniture and place_all, every room of a type
\* with an essential category that had stock has drawn an instance of that
\* category.
C6_EveryRoomEssential ==
    pc = "done" =>
        \A r \in 1..Len(rooms_info) : \A c \in EssentialOf(r) :
            Queue(stock, c) # <<>> => Received(r, c) >= 1

\* C7: draw semantics.  Every draw of a category whose queue is not empty
\* takes the first instance flagged essential when there is one, else the
\* head of the queue, and removes exactly that instance; a draw of an
\* absent or exhausted category yields nothing and leaves the pool as it
\* was.
C7_DrawSemantics ==
    [][(pc = "draw" /\ k' = k + 1) =>
        LET c == FurnitureNeeded[k]
            q == Queue(furniture_prototypes, c)
            flagged == {i \in 1..Len(q) : items[q[i]].essential}
            j == IF flagged = {} THEN 1
                 ELSE CHOOSE i \in flagged : \A i2 \in flagged : i <= i2
        IN  IF q = <<>>
            THEN /\ furniture_prototypes' = furniture_prototypes
                 /\ all_furniture' = all_furniture
            ELSE /\ all_furniture' = Append(all_furniture, q[j])
                 /\ furniture_prototypes' =
                        [furniture_prototypes EXCEPT
                            ![c] = [i \in 1..(Len(q) - 1) |-> IF i < j THEN q[i] ELSE q[i + 1]]]
    ]_vars
\* a flagged duplicate has been drawn ahead of an original still queued
C7_Witness ==
    \E i \in 1..Len(drawLog) :
        /\ items[drawLog[i].id].essential
        /\ \E n \in 1..Len(Queue(furniture_prototypes, drawLog[i].cat)) :
              ~items[furniture_prototypes[drawLog[i].cat][n]].essential

\* the rooms whose category list names c
RoomsListing(c) == {r \in 1..Len(rooms_info) : Listed(r, c) >= 1}

\* C8 as stated: when more rooms list a category than it has instances,
\* exactly the first of them in iteration order, as many as there are
\* instances, receive one and the later ones receive none.
C8_AsStated ==
    pc = "done" =>
        \A c \in Categories :
            Cardinality(RoomsListing(c)) > Len(Queue(stock, c)) =>
                \A r \in RoomsListing(c) :
                    IF Cardinality({q \in RoomsListing(c) : q < r}) < Len(Queue(stock, c))
                    THEN Received(r, c) >= 1
                    ELSE Received(r, c) = 0
\* C8: first-claim ordering.  Rooms draw in iteration order, and a room
\* receives, of a category with n instances in stock, one instance per
\* entry of that category in its list as long as instances are left after
\* the entries of the rooms before it: min(own entries, max(0, n - earlier
\* entries)).
C8_FirstClaim ==
    /\ \A i \in 1..Len(drawLog), j \in 1..Len(drawLog) :
          i < j => drawLog[i].room <= drawLog[j].room
    /\ pc = "done" =>
          \A c \in Categories : \A r \in 1..Len(rooms_info) :
              Received(r, c) =
                  Min(Listed(r, c), Max(0, Len(Queue(stock, c)) - ListedBefore(r, c)))
\* an earlier room has taken a scarce category and a later room listing
\* it has received none
C8_Witness ==
    /\ pc = "done"
    /\ \E c \in Categories : \E r1 \in RoomsListing(c), r2 \in RoomsListing(c) :
          r1 < r2 /\ Received(r1, c) >= 1 /\ Received(r2, c) = 0

\* the default strategy is about to place the item f in a rectangular room
\* with nothing placed, and f's width does not exceed the longest wall
C9Case ==
    /\ pc = "default"
    /\ lists.todo # <<>>
    /\ placed_polygons = <<>>
    /\ LET b == Room.bounding_box
           f == items[Head(lists.todo)]
       IN  /\ Room.contour = b
           /\ b = Rect(b[1][1], b[1][2], b[2][1] - b[1][1], b[3][2] - b[2][2])
           /\ f.width_px <= SizeDen * Max(b[2][1] - b[1][1], b[3][2] - b[2][2])
\* the longest wall of the rectangle b is its first edge when the rectangle
\* is at least as wide as high, else its second edge; the pose at the
\* middle of that wall, the centre half the item's height inwards
C9Angle(b) == IF b[2][1] - b[1][1] >= b[3][2] - b[2][2] THEN 0 ELSE 90
C9Depth(b) == Min(b[2][1] - b[1][1], b[3][2] - b[2][2])
C9Centre(b, f) ==
    IF C9Angle(b) = 0
    THEN <<(b[1][1] + b[2][1]) * (Den \div 2), b[1][2] * Den + Half(f.height_px)>>
    ELSE <<b[2][1] * Den - Half(f.height_px), (b[2][2] + b[3][2]) * (Den \div 2)>>
\* the step places f in that pose, width side along the wall
C9Placed ==
    LET id == Head(lists.todo)
        f == items[id]
        b == Room.bounding_box
    IN  /\ placed_in_this_room' = <<id>>
        /\ placed_polygons' = <<GetFurniturePolygon(f.width_px, f.height_px,
                                                    C9Centre(b, f), C9Angle(b))>>
        /\ items'[id].angle = C9Angle(b)
        /\ items'[id].width_px = f.width_px
        /\ items'[id].height_px = f.height_px
\* the committed position is that centre cut to whole pixels
C9Committed ==
    items'[Head(lists.todo)].position_px =
        <<C9Centre(Room.bounding_box, items[Head(lists.todo)])[1] \div Den,
          C9Centre(Room.bounding_box, items[Head(lists.todo)])[2] \div Den>>

C10Case ==
    /\ pc = "done"
    /\ Len(rooms_info) = 1
    /\ rooms_info[1].bounding_box = Rect(10, 10, 100, 100)
    /\ rooms_info[1].contour = Rect(10, 10, 100, 100)
    /\ Len(drawLog) = 2
    /\ drawLog[1].cat = drawLog[2].cat
    /\ \A i \in 1..2 : /\ items[drawLog[i].id].width_px = 90 * SizeDen
                       /\ items[drawLog[i].id].height_px = 90 * SizeDen
\* C10: crowded-room scenario.  The first item is placed at the 0.5
\* position of the first wall; the second has no accepted pose at any wall,
\* orientation and fraction, keeps no position, is not in the room's placed
\* list, and the room type's statistics count two attempts, one placed and
\* one failed.
C10_CrowdedRoom ==
    C10Case =>
        LET a == drawLog[1].id
            b == drawLog[2].id
            room == rooms_info[1]
            walls == UnsortedWalls(room.bounding_box)
        IN  /\ placed_furniture = << <<a>> >>
            /\ items[a].position_px = <<60, 55>> /\ items[a].angle = 0
            /\ items[b].position_px = NoPos
            /\ placement_stats[room.type] = [attempted |-> 2, placed |-> 1, failed |-> 1]
            /\ \A w \in 1..Len(walls) : \A j \in 1..Len(TFractions) :
                  ~PoseAccepted(CandidatePoly(<<90 * SizeDen, 90 * SizeDen>>, j, walls[w],
                                              PolyCentroid(room.contour)),
                                room.contour, <<CommittedPoly(a)>>)
\* the crowded room after place_all, its second item counted as failed
C10_Witness ==
    /\ C10Case
    /\ placement_stats[rooms_info[1].type].failed = 1
    /\ ~InSeq(drawLog[2].id, placed_furniture[1])

\* the viewing-axis step places the main sofa in front of the television
MainSofa == Head(lists.sofas)
SofaPlacedByAxis ==
    /\ pc = "sofa"
    /\ lists.sofas # <<>>
    /\ InSeq(MainSofa, placed_in_this_room')
\* twice the viewing distance, sofa height / 2 + 100 pixels, in item-size
\* units
TwiceViewing(sofa) == sofa.height_px + 2 * SofaBuffer * SizeDen

\* C11: whenever the viewing-axis step places the main sofa, with the
\* television at committed position P and angle A, the sofa's committed
\* angle is A + 180 and its committed position lies on the ray from P
\* toward the centroid of the room's boundary polygon, at distance
\* sofa height / 2 + 100 from P.
C11_SofaFacesTv ==
    [][SofaPlacedByAxis =>
        LET tv == items[lists.tv[1]]
            d == VSub(items'[MainSofa].position_px, tv.position_px)
            c == VSub(PolyCentroid(ContourOrBox(Room)), ToSub(tv.position_px))
        IN  /\ items'[MainSofa].angle = tv.angle + 180
            /\ Cross(d, c) = 0
            /\ Dot(d, c) > 0
            /\ 4 * SizeDen * SizeDen * Norm2(d)
                   = TwiceViewing(items[MainSofa]) * TwiceViewing(items[MainSofa])
    ]_vars

\* the number of candidate poses the search on a wall can evaluate for the
\* orientation list orients: five wall fractions each
CandidateCount(orients) == Len(TFractions) * Len(orients)

\* C12: orientation symmetry.  For every item, the wall-fit search on a wall
\* evaluates exactly one orientation, (width, height), and so at most five
\* candidate poses, when the item is square or the caller fixes the
\* orientation; otherwise it evaluates (width, height) and then
\* (height, width).
C12_OrientationSymmetry ==
    \A id \in 1..Len(items) : \A fixed \in BOOLEAN :
        LET f == items[id]
            wh == <<f.width_px, f.height_px>>
            hw == <<f.height_px, f.width_px>>
            orients == Orientations(f, fixed)
        IN  IF f.width_px = f.height_px \/ fixed
            THEN orients = <<wh>> /\ CandidateCount(orients) = 5
            ELSE orients = <<wh, hw>> /\ CandidateCount(orients) = 10
\* the search has placed a square item
C12_Witness ==
    /\ cur > 0
    /\ \E id \in 1..Len(items) :
          /\ InSeq(id, placed_in_this_room)
          /\ items[id].width_px = items[id].height_px

\* what a run of the wall-fit search returns: the success flag and, on
\* success, the committed pose
Returned(r) ==
    IF r.ok
    THEN [ok |-> TRUE, position |-> r.f.position_px, angle |-> r.f.angle,
          width |-> r.f.width_px, height |-> r.f.height_px]
    ELSE [ok |-> FALSE]
\* an instance with the footprint of f and nothing else in common with it
SameFootprint(f) ==
    [f EXCEPT !.name = "other", !.essential = ~f.essential,
              !.position_px = <<0, 0>>, !.angle = 45]
Reversed(s) == [i \in 1..Len(s) |-> s[Len(s) + 1 - i]]
\* the search for the drawn item id on wall w of the room being furnished
SearchOn(f, w, placed) ==
    Returned(PlaceItemOnWall(f, UnsortedWalls(Room.bounding_box)[w], RoomPolygon(Room),
                             placed, FALSE))

RECURSIVE PlacedInRooms(_, _)
PlacedInRooms(t, r) ==
    IF r = 0 THEN 0
    ELSE PlacedInRooms(t, r - 1)
             + (IF rooms_info[r].type = t THEN Len(placed_furniture[r]) ELSE 0)
\* the number of draws made for the rooms of type t
DrawnForType(t) ==
    Cardinality({i \in 1..Len(drawLog) : rooms_info[drawLog[i].room].type = t})

\* C14: statistics match results.  After place_all, for every room type the
\* placed counter equals the number of items in the placed lists of all
\* rooms of that type, and the attempts counted are the placed plus the
\* failed ones.
C14_StatsMatch ==
    pc = "done" =>
        \A t \in DOMAIN placement_stats :
            /\ placement_stats[t].placed = PlacedInRooms(t, Len(placed_furniture))
            /\ placement_stats[t].attempted
                   = placement_stats[t].placed + placement_stats[t].failed

\* C15: unplaceable items are reported once and not retried.  After
\* place_all, for every room type the attempts counted are one per item
\* drawn for the rooms of that type, and the failures counted are one per
\* drawn item that is not in a placed list.
C15_ReportedOnce ==
    pc = "done" =>
        \A t \in DOMAIN placement_stats :
            /\ placement_stats[t].attempted = DrawnForType(t)
            /\ placement_stats[t].failed
                   = DrawnForType(t) - PlacedInRooms(t, Len(placed_furniture))


\* C16: no drawn item is silently dropped.  When a room's strategy returns,
\* every item drawn for the room is in the room's placed list or is one the
\* generic search on all walls fails on.  Footprints only accumulate while a
\* room is furnished, so an item the search ran on and failed on earlier
\* still fails on the footprints the room ends with.
DrawnHere == {drawLog[i].id : i \in {j \in 1..Len(drawLog) : drawLog[j].room = cur}}
C16_NoneDropped ==
    [][placed_furniture' # placed_furniture =>
         \A id \in DrawnHere :
             \/ InSeq(id, placed_in_this_room)
             \/ ~PlaceAgainstWall(items[id], Room.bounding_box, RoomPolygon(Room),
                                  placed_polygons).ok]_vars


\* C17: instances are mutated only by a successful placement.  A step of a
\* room's strategy changes the position, angle, width or height of an
\* instance only if the step adds that instance to the room's placed list;
\* so an instance changes at most once and one that ends unplaced is as it
\* was created.
NewlyPlaced(id) == InSeq(id, placed_in_this_room') /\ ~InSeq(id, placed_in_this_room)
C17_MutatedOnlyBySuccess ==
    [][cur > 0 =>
         \A id \in 1..Len(items) :
             items'[id] # items[id] => NewlyPlaced(id)]_vars


\* C18: zero-stock essential gap.  ensure_essential_furniture creates no
\* instance of a category that has none (absent key or empty queue) and
\* leaves that category as it was, whatever the number of rooms; and what it
\* was passed is not modified: every instance and every queue it was given
\* is found unchanged in what it returns, the duplicates coming after them.
NamedIn(its, c) == {i \in 1..Len(its) : its[i].name = c}
EvaluatedOnWall(n, orients, wall) ==
    Cardinality({m \in 1..(IF n = 0 THEN 5 * Len(orients) ELSE n) :
                    ~TooWide(orients[((m - 1) \div 5) + 1], wall)})
RECURSIVE PosesEvaluated(_, _, _, _)
PosesEvaluated(f, walls, room_polygon, placed) ==
    IF walls = <<>> THEN 0
    ELSE LET orients == Orientations(f, FALSE)
             n == FirstAccepted(1, orients, Head(walls), room_polygon,
                                PolyCentroid(room_polygon), placed)
         IN  EvaluatedOnWall(n, orients, Head(walls))
               + (IF n = 0 THEN PosesEvaluated(f, Tail(walls), room_polygon, placed) ELSE 0)
NextSearchCount ==
    PosesEvaluated(items[Head(lists.todo)], GetWalls(Room.bounding_box), RoomPolygon(Room),
                   placed_polygons)
NextSearch ==
    PlaceAgainstWall(items[Head(lists.todo)], Room.bounding_box, RoomPolygon(Room),
                     placed_polygons)
SearchEnds(f, r) ==
    IF r.ok THEN r.poly # <<>> /\ r.f.position_px # NoPos
    ELSE r.poly = <<>> /\ r.f = f
C19_BoundedSearch ==
    (pc = "default" /\ lists.todo # <<>>) =>
        LET walls == GetWalls(Room.bounding_box)
        IN  /\ Len(walls) = Len(Room.bounding_box)
            /\ \A i, j \in 1..Len(walls) : walls[i] = walls[j] => i = j
            /\ NextSearchCount <= 2 * Len(TFractions) * Len(Room.bounding_box)
            /\ NextSearch.ok => NextSearchCount >= 1
            /\ SearchEnds(items[Head(lists.todo)], NextSearch)

\* a search is about to fail after evaluating every pose of both orientations
\* on every wall
C19_Witness ==
    /\ pc = "default" /\ lists.todo # <<>>
    /\ ~NextSearch.ok
    /\ NextSearchCount = 2 * Len(TFractions) * Len(Room.bounding_box)


\* C20: no global abort.  For any rooms and any pool, place_all eventually
\* returns, and what it returns holds one placed list for every room of the
\* input, in input order: the r-th list holds only items drawn for the r-th
\* room.
LayoutReturned ==
    /\ pc = "done"
    /\ Len(placed_furniture) = Len(rooms_info)
    /\ \A r \in 1..Len(placed_furniture) : \A i \in 1..Len(placed_furniture[r]) :
          \E j \in 1..Len(drawLog) :
              drawLog[j].room = r /\ drawLog[j].id = placed_furniture[r][i]
C20_NoGlobalAbort == <>LayoutReturned
\* place_all has returned an empty placed list for a room whose category
\* list is not empty, next to a room with a placed item
C20_Witness ==
    /\ pc = "done"
    /\ Len(placed_furniture) = Len(rooms_info)
    /\ \E r \in 1..Len(rooms_info) : placed_furniture[r] = <<>> /\ ListOf(r) # <<>>
    /\ \E r \in 1..Len(rooms_info) : placed_furniture[r] # <<>>


\* C21: wall derivation.  For a boundary of n vertices _get_walls returns
\* exactly n walls, each edge (vertex i, vertex i+1 mod n) once, the
\* wrap-around edge among them, in order of non-increasing length, walls of
\* equal length in vertex order.
EdgeOf(b, i) == <<b[i], b[(i % Len(b)) + 1]>>
\* the vertex index of the edge that wall w of boundary b is
EdgeIndex(b, w) == CHOOSE i \in 1..Len(b) : EdgeOf(b, i) = w
WallsDerived(b, walls) ==
    /\ Len(walls) = Len(b)
    /\ \A i \in 1..Len(b) : Cardinality({j \in 1..Len(walls) : walls[j] = EdgeOf(b, i)}) = 1
    /\ \A j \in 1..Len(walls) : \E i \in 1..Len(b) : walls[j] = EdgeOf(b, i)
    /\ \A j \in 1..(Len(walls) - 1) :
          /\ WallLen2(walls[j]) >= WallLen2(walls[j + 1])
          /\ WallLen2(walls[j]) = WallLen2(walls[j + 1])
                => EdgeIndex(b, walls[j]) < EdgeIndex(b, walls[j + 1])
C21_WallDerivation ==
    cur > 0 => WallsDerived(Room.bounding_box, GetWalls(Room.bounding_box))
\* a room whose walls the sort reorders, equal walls among them
C21_Witness ==
    /\ cur > 0
    /\ GetWalls(Room.bounding_box) # UnsortedWalls(Room.bounding_box)
    /\ \E j \in 1..3 : WallLen2(GetWalls(Room.bounding_box)[j])
                         = WallLen2(GetWalls(Room.bounding_box)[j + 1])


\* C22: first accepted pose wins.  On a wall, _place_item_on_wall succeeds
\* exactly when some candidate is accepted, and then commits the earliest
\* accepted one in the order orientation first, then fraction 0.5, 0.25,
\* 0.75, 0.1, 0.9: a candidate is accepted when its orientation is not wider
\* than the wall, it collides with no placed footprint and its centroid is
\* inside the room.  _place_against_wall returns what _place_item_on_wall
\* returns on the first wall, longest first, where it succeeds.
CandidateOk(o, j, wall, room_polygon, placed) ==
    /\ o[1] * o[1] <= WallLen2(wall) * SizeDen * SizeDen
    /\ \A i \in 1..Len(placed) :
          ~Intersects(CandidatePoly(o, j, wall, PolyCentroid(room_polygon)), placed[i])
    /\ PolyContains(room_polygon,
                    FootprintCentroid(CandidatePoly(o, j, wall, PolyCentroid(room_polygon))))
BothWays(f) ==
    IF f.width_px = f.height_px THEN << <<f.width_px, f.height_px>> >>
    ELSE << <<f.width_px, f.height_px>>, <<f.height_px, f.width_px>> >>
Earlier(a, b) == a[1] < b[1] \/ (a[1] = b[1] /\ a[2] < b[2])
\* r is the outcome of the search for f on the wall
FirstWins(f, r, wall, room_polygon, placed) ==
    LET os == BothWays(f)
        cand == (1..Len(os)) \X (1..5)
        ok == {c \in cand : CandidateOk(os[c[1]], c[2], wall, room_polygon, placed)}
    IN  /\ r.ok = (ok # {})
        /\ r.ok =>
              \E c \in ok :
                  /\ \A e \in ok : ~Earlier(e, c)
                  /\ r.poly = CandidatePoly(os[c[1]], c[2], wall, PolyCentroid(room_polygon))
                  /\ r.f.width_px = os[c[1]][1] /\ r.f.height_px = os[c[1]][2]
                  /\ r.f.width_px * r.f.width_px <= WallLen2(wall) * SizeDen * SizeDen
\* r is the outcome of the search for f on the walls, in their order
FirstWallWins(f, r, walls, room_polygon, placed) ==
    LET won == {w \in 1..Len(walls) :
                   PlaceItemOnWall(f, walls[w], room_polygon, placed, FALSE).ok}
    IN  /\ r.ok = (won # {})
        /\ r.ok => \E w \in won :
                      /\ \A v \in won : w <= v
                      /\ r = PlaceItemOnWall(f, walls[w], room_polygon, placed, FALSE)
C22_FirstAcceptedWins ==
    (pc = "default" /\ lists.todo # <<>>) =>
        /\ TFractions = <<Den \div 2, Den \div 4, (3 * Den) \div 4, Den \div 10, (9 * Den) \div 10>>
        /\ \A w \in 1..Len(Room.bounding_box) :
              FirstWins(items[Head(lists.todo)],
                        PlaceItemOnWall(items[Head(lists.todo)], GetWalls(Room.bounding_box)[w],
                                        RoomPolygon(Room), placed_polygons, FALSE),
                        GetWalls(Room.bounding_box)[w], RoomPolygon(Room), placed_polygons)
        /\ FirstWallWins(items[Head(lists.todo)], NextSearch, GetWalls(Room.bounding_box),
                         RoomPolygon(Room), placed_polygons)
\* the search is about to commit a pose that is not the first candidate of
\* the first wall: earlier ones were rejected
C22_Witness ==
    /\ pc = "default" /\ lists.todo # <<>>
    /\ NextSearch.ok
    /\ ~PlaceItemOnWall(items[Head(lists.todo)], GetWalls(Room.bounding_box)[1],
                        RoomPolygon(Room), placed_polygons, FALSE).ok
    /\ NextSearchCount >= 7


\* C23: kitchen counter rule.  A kitchen counter that the kitchen step of
\* the living room places rests on one of the room's two shortest walls,
\* at that wall's angle, with its longer side as its width, the side
\* parallel to the wall.
OnWallLine(p, wall) == Cross(VSub(ToSub(wall[2]), ToSub(wall[1])), VSub(p, ToSub(wall[1]))) = 0
RestsOn(poly, wall) == Cardinality({i \in 1..Len(poly) : OnWallLine(poly[i], wall)}) >= 2
KitchenPlacedNow ==
    /\ pc = "kitchen" /\ lists.kitchen # <<>>
    /\ InSeq(lists.kitchen[1], placed_in_this_room')
C23_KitchenOnShortWall ==
    [][KitchenPlacedNow =>
         \E w \in 1..2 :
             LET wall == WallsShortestFirst(Room.bounding_box)[w]
                 kitchen == items'[lists.kitchen[1]]
             IN  /\ RestsOn(placed_polygons'[1], wall)
                 /\ kitchen.angle = WallAngle(WallVec(wall))
                 /\ kitchen.width_px >= kitchen.height_px]_vars


\* C24: sink rule.  A sink that the sink step of a bathroom places has its
\* longer side as its committed width, the extent parallel to its wall, and
\* is where the search with that single orientation, wall after wall in
\* wall order, puts it.
SinkPlacedNow ==
    /\ pc = "bathroom" /\ lists.sink_items # <<>>
    /\ InSeq(Head(lists.sink_items), placed_in_this_room')
    /\ ~InSeq(Head(lists.sink_items), placed_in_this_room)
C24_SinkLongSideOnWall ==
    [][SinkPlacedNow =>
         LET sink == items[Head(lists.sink_items)]
             placed == items'[Head(lists.sink_items)]
         IN  /\ placed.width_px = Max(sink.width_px, sink.height_px)
             /\ placed.height_px = Min(sink.width_px, sink.height_px)
             /\ placed = PlaceOnWalls(LongSideAsWidth(sink), GetWalls(Room.bounding_box),
                                      RoomPolygon(Room), placed_polygons, TRUE).f]_vars


\* C25: bedroom bed first.  The bed step of a bedroom is the room's first
\* attempt.  If the search accepts the bed on the longest wall it commits
\* it there, else if it accepts it on the second longest wall, there; it
\* commits it on another wall only when both fail.  A placed bed is the
\* first entry of the room's placed list.  A bed that is not placed stops
\* nothing: the study desks and the other items stay to be attempted, and
\* when the room returns each of them has been attempted.  (The attempts
\* are counted per room type: the bedrooms of the plan differ in type.)
NotBeds == {i \in 1..Len(all_furniture) : ~IsBedName(items[all_furniture[i]].name)}
BedStepFirst ==
    LET bed == lists.bed[1]
        on1 == PlaceItemOnWall(items[bed], GetWalls(Room.bounding_box)[1], RoomPolygon(Room),
                               placed_polygons, FALSE)
        on2 == PlaceItemOnWall(items[bed], GetWalls(Room.bounding_box)[2], RoomPolygon(Room),
                               placed_polygons, FALSE)
    IN  /\ placed_in_this_room = <<>> /\ placed_polygons = <<>>
        /\ placement_stats[RoomType].attempted = 0
        /\ placement_stats'[RoomType].attempted = 1
        /\ on1.ok => items'[bed] = on1.f /\ placed_polygons' = <<on1.poly>>
        /\ (~on1.ok /\ on2.ok) => items'[bed] = on2.f /\ placed_polygons' = <<on2.poly>>
        /\ placed_in_this_room' # <<>> => placed_in_this_room' = <<bed>>
        /\ placed_in_this_room' = <<>> =>
              /\ items'[bed] = items[bed]
              /\ lists'.study_items = lists.study_items
              /\ lists'.bedside_items = lists.bedside_items
              /\ lists'.other_furniture = lists.other_furniture
              /\ pc' = "bedside"
DrawnAs(c) == {drawLog[i].id : i \in {j \in 1..Len(drawLog) :
                                          drawLog[j].room = cur /\ drawLog[j].cat = c}}
C26_BedsideRule ==
    [][/\ (/\ pc = "bed" /\ lists.bed # <<>>
           /\ items[lists.bed[1]].name \in {"bed", "singlebed"}
           /\ InSeq(lists.bed[1], placed_in_this_room')) =>
              \A id \in DrawnAs("bedside") :
                  InSeq(id, lists.bedside_items) /\ ~InSeq(id, lists.bed_items)
       /\ (pc = "bedside" /\ BedPlaced /\ lists.sides # <<>> /\ lists.bedside_items # <<>>) =>
              LET bed == items[lists.bed[1]]
                  id == Head(lists.bedside_items)
                  at == PlaceItemAtPos(items[id], BedsidePos(bed, items[id], Head(lists.sides)),
                                       bed.angle, RoomPolygon(Room), placed_polygons)
              IN  at.ok => items'[id] = at.f
      ]_vars


\* the shower loop is about to handle the shower at the head of its list
ShowerNext ==
    /\ pc = "bathroom"
    /\ lists.sink_items = <<>> /\ lists.bathtub_items = <<>> /\ lists.shower_items # <<>>

\* both sides of the room's box are at least twice the item's longer side
LargeEnoughFor(f, room) ==
    LET b == room.bounding_box
        long == IF f.width_px >= f.height_px THEN f.width_px ELSE f.height_px
    IN  /\ (b[2][1] - b[1][1]) * SizeDen >= 2 * long
        /\ (b[3][2] - b[2][2]) * SizeDen >= 2 * long

\* C27: shower corner rule.  When a bathroom is about to place a shower,
\* the candidate position computed for every detected corner lies inside
\* the room polygon; and when the bathroom is an empty rectangle large
\* enough for the shower, the corner step itself places the shower.
C27_ShowerCornerInward ==
    ShowerNext =>
        LET shower == items[Head(lists.shower_items)]
            corners == Corners(GetWalls(Room.bounding_box))
        IN  /\ \A q \in 1..Len(corners) :
                   PolyContains(RoomPolygon(Room), CornerPos(corners[q], shower))
            /\ (placed_polygons = <<>> /\ LargeEnoughFor(shower, Room)) =>
                   TryCorners(shower, corners, RoomPolygon(Room), placed_polygons).ok


\* the instance id is in the placed list of room r
PlacedIn(id, r) == InSeq(id, placed_furniture[r])

\* C28: placed iff positioned.  When place_all has returned, an instance
\* has a position exactly when it is in some room's placed list; no
\* instance is in two rooms' placed lists or twice in one list; and no
\* placed instance is still in a queue of the pool.
C28_PlacedIffPositioned ==
    pc = "done" =>
        /\ \A id \in 1..Len(items) :
              (items[id].position_px # NoPos) <=>
                  (\E r \in 1..Len(placed_furniture) : PlacedIn(id, r))
        /\ \A r1 \in 1..Len(placed_furniture), r2 \in 1..Len(placed_furniture) :
              \A i \in 1..Len(placed_furniture[r1]), j \in 1..Len(placed_furniture[r2]) :
                  (r1 # r2 \/ i # j) => placed_furniture[r1][i] # placed_furniture[r2][j]
        /\ \A r \in 1..Len(placed_furniture) : \A c \in Categories :
              \A id \in 1..Len(items) :
                  PlacedIn(id, r) => ~InSeq(id, Queue(furniture_prototypes, c))
\* a returned layout of two rooms that both placed items, with an instance
\* that was drawn and not placed and one left in the pool
C28_Witness ==
    /\ pc = "done"
    /\ Len(placed_furniture) >= 2
    /\ placed_furniture[1] # <<>> /\ placed_furniture[2] # <<>>
    /\ \E i \in 1..Len(drawLog) :
           \A r \in 1..Len(placed_furniture) : ~PlacedIn(drawLog[i].id, r)
    /\ \E c \in Categories : Queue(furniture_prototypes, c) # <<>>


\* the categories of the instances drawn for room r, in drawing order
DrawnCats(r) ==
    LET mine == SelectSeq(drawLog, LAMBDA d : d.room = r)
    IN  [i \in 1..Len(mine) |-> mine[i].cat]

\* s is t with some entries left out
RECURSIVE IsSubSeq(_, _)
IsSubSeq(s, t) ==
    IF s = <<>> THEN TRUE
    ELSE IF t = <<>> THEN FALSE
    ELSE IF Head(s) = Head(t) THEN IsSubSeq(Tail(s), Tail(t))
    ELSE IsSubSeq(s, Tail(t))

DistinctList(l) == \A i \in 1..Len(l), j \in 1..Len(l) : i # j => l[i] # l[j]

\* the placed list of room r: the returned one, or the one being built
PlacedListOf(r) ==
    IF r <= Len(placed_furniture) THEN placed_furniture[r]
    ELSE IF r = cur /\ pc \notin {"main", "place_all", "next_room", "done"} THEN placed_in_this_room
    ELSE <<>>

\* C29: one item per category per room.  A room draws at most one instance
\* for each entry of a category in its room type's category list, in list
\* order (the categories it has drawn are its list with some entries left
\* out); so a room whose list names distinct categories never has two
\* placed items of the same category, whatever the stock and the flagged
\* duplicates in the pool.
C29_OnePerCategory ==
    \A r \in 1..Len(rooms_info) :
        /\ \A c \in Categories : Received(r, c) <= Listed(r, c)
        /\ IsSubSeq(DrawnCats(r), ListOf(r))
        /\ DistinctList(ListOf(r)) =>
              \A i \in 1..Len(PlacedListOf(r)), j \in 1..Len(PlacedListOf(r)) :
                  i # j => items[PlacedListOf(r)[i]].name # items[PlacedListOf(r)[j]].name
\* a room with a list of distinct categories has placed an item of a
\* category of which a second instance and a flagged one are in the stock
C29_Witness ==
    \E r \in 1..Len(placed_furniture) :
        /\ DistinctList(ListOf(r))
        /\ \E i \in 1..Len(placed_furniture[r]) :
              LET c == items[placed_furniture[r][i]].name
              IN  /\ Len(Queue(stock, c)) >= 2
                  /\ \E n \in 1..Len(Queue(stock, c)) : items[stock[c][n]].essential
                  /\ Queue(furniture_prototypes, c) # <<>>


\* C30: committed pose equals checked pose.  Whenever a step of a room
\* places an item, the footprint it adds to the room's collision set is
\* the footprint built from the item's committed position, angle, width
\* and height.
C30_CommittedIsChecked ==
    [][(cur' = cur /\ Len(placed_in_this_room') > Len(placed_in_this_room)) =>
          /\ Len(placed_polygons') = Len(placed_in_this_room')
          /\ \A i \in (Len(placed_in_this_room) + 1)..Len(placed_in_this_room') :
                LET f == items'[placed_in_this_room'[i]]
                IN  placed_polygons'[i] =
                        GetFurniturePolygon(f.width_px, f.height_px, ToSub(f.position_px), f.angle)
      ]_vars

============================================================================
